---- MODULE Spec2Model ----
(***************************************************************************)
(* State-machine model of SAF_LCA_Model (src/LCA_calculation.py): the      *)
(* parameter store (five setter methods), the calculation engine            *)
(* (calculate_lca), the benchmark calculator                                *)
(* (calculate_emission_reduction) and the two sensitivity sweeps            *)
(* (analyze_electricity_sources, analyze_transport_modes).                  *)
(*                                                                          *)
(* Python floats are modelled as exact rationals <<n, d>> in lowest terms   *)
(* with d > 0; a Python dict is a function whose DOMAIN is the dict's key   *)
(* set, so the empty dict is the empty function <<>>.                       *)
(***************************************************************************)
EXTENDS Integers, Sequences, FiniteSets, TLC

\* the attributes of the instance
VARIABLES pathway, functional_unit, co2_source,
          carbon_capture_data, electrolysis_data, conversion_data,
          distribution_data, use_phase_data, results

\* what a caller has seen: last is the latest call (method, arguments, how
\* it ended, what it returned, whether the stored result was empty, stale
\* or fresh when it began, and the keys its group held when a setter
\* began); was_set is the set of parameter groups a setter call has stored
\* so far
VARIABLES last, was_set

\* the calls in progress when several callers share the instance: each
\* caller's call with its position and local variables, whether a caller
\* has taken a step while another was inside a call, and the model as it
\* was before the calls began
VARIABLE callers

\* the state: last.op and last.exc come before last, so that two outcomes
\* are told apart by method and ending before a None, a result dict, a
\* percentage and a row list are compared with each other
vars == <<pathway, functional_unit, co2_source,
          carbon_capture_data, electrolysis_data, conversion_data,
          distribution_data, use_phase_data, results, was_set, callers,
          last.op, last.exc, last>>

(***************************************************************************)
(* Bounds of the model.                                                     *)
(***************************************************************************)
\* longest caller-supplied scenario list handed to a sweep
MaxSweepLen == 2

(***************************************************************************)
(* Exact rational arithmetic standing for Python float arithmetic.          *)
(***************************************************************************)
Abs(n) == IF n < 0 THEN -n ELSE n

RECURSIVE GCD(_, _)
GCD(a, b) == IF b = 0 THEN a ELSE GCD(b, a % b)

\* the rational n/d (d # 0) in lowest terms with a positive denominator
R(n, d) ==
    LET g == GCD(Abs(n), Abs(d))
        s == IF d < 0 THEN -1 ELSE 1
    IN  <<(s * n) \div g, (s * d) \div g>>

Num(q) == q[1]
Den(q) == q[2]
IsZero(q) == q[1] = 0

Add(p, q) ==
    LET g == GCD(p[2], q[2])
    IN  R(p[1] * (q[2] \div g) + q[1] * (p[2] \div g), (p[2] \div g) * q[2])

Neg(p) == <<-p[1], p[2]>>

Sub(p, q) == Add(p, Neg(q))

\* cross-cancelling product, so that intermediate values stay small
Mul(p, q) ==
    LET g1 == GCD(Abs(p[1]), q[2])
        g2 == GCD(Abs(q[1]), p[2])
    IN  IF p[1] = 0 \/ q[1] = 0 THEN <<0, 1>>
        ELSE <<(p[1] \div g1) * (q[1] \div g2), (p[2] \div g2) * (q[2] \div g1)>>

\* p / q for q # 0 (Python raises ZeroDivisionError when q = 0; every use
\* below tests the divisor first)
Div(p, q) ==
    IF q[1] < 0 THEN Mul(p, <<-q[2], -q[1]>>) ELSE Mul(p, <<q[2], q[1]>>)

Less(p, q) == Num(Sub(p, q)) < 0
Geq(p, q) == ~Less(p, q)

\* Python's None for an optional argument
None == <<0, 0>>

\* the empty dict {}
EmptyDict == <<>>

\* dict.get(key, default)
Get(d, key, default) == IF key \in DOMAIN d THEN d[key] ELSE default

(***************************************************************************)
(* Exceptions.  Both ValueErrors of the source are told apart by message.   *)
(***************************************************************************)
NoError == "none"
MissingData == "ValueError: Missing required data for LCA calculation"
InvalidArgument == "ValueError: unsupported transport mode"
ZeroDivisionError == "ZeroDivisionError"
KeyError == "KeyError"

\* a method call ends by returning a value or by raising; self is the
\* instance as the call leaves it
Return(self, value) == [self |-> self, exc |-> NoError, ret |-> value]
Raise(self, exc) == [self |-> self, exc |-> exc, ret |-> None]

(***************************************************************************)
(* Lookup tables.                                                           *)
(***************************************************************************)
\* kg CO2e/tonne-km
\* a table in which truck has the smallest factor
emission_factors_truck_lowest ==
    [truck |-> R(1, 1000), rail |-> R(22, 1000), ship |-> R(15, 1000),
     barge |-> R(31, 1000), pipeline |-> R(2, 1000)]

emission_factors ==
    [truck |-> R(62, 1000), rail |-> R(22, 1000), ship |-> R(15, 1000),
     barge |-> R(31, 1000), pipeline |-> R(2, 1000)]

\* MJ/tonne-km
energy_factors ==
    [truck |-> R(21, 10), rail |-> R(6, 10), ship |-> R(4, 10),
     barge |-> R(8, 10), pipeline |-> R(1, 10)]

\* tonne per kg fuel
fuel_weight_tonne == R(1, 1000)

\* kg CO2e/kWh
\* a table with a fifteenth source
electricity_carbon_intensities_with_geothermal ==
    [grid_global |-> R(475, 1000), grid_eu |-> R(253, 1000),
     grid_china |-> R(638, 1000), grid_us |-> R(389, 1000),
     natural_gas |-> R(410, 1000), coal |-> R(820, 1000),
     solar |-> R(48, 1000), wind |-> R(11, 1000), hydro |-> R(24, 1000),
     nuclear |-> R(12, 1000), biomass |-> R(230, 1000),
     renewable_mix |-> R(30, 1000), low_carbon_mix |-> R(100, 1000),
     renewable |-> R(20, 1000), geothermal |-> R(38, 1000)]

electricity_carbon_intensities ==
    [grid_global |-> R(475, 1000), grid_eu |-> R(253, 1000),
     grid_china |-> R(638, 1000), grid_us |-> R(389, 1000),
     natural_gas |-> R(410, 1000), coal |-> R(820, 1000),
     solar |-> R(48, 1000), wind |-> R(11, 1000), hydro |-> R(24, 1000),
     nuclear |-> R(12, 1000), biomass |-> R(230, 1000),
     renewable_mix |-> R(30, 1000), low_carbon_mix |-> R(100, 1000),
     renewable |-> R(20, 1000)]

(***************************************************************************)
(* The instance.                                                            *)
(***************************************************************************)
EmptyResults ==
    [ghg_emissions |-> EmptyDict, energy_consumption |-> EmptyDict,
     water_usage |-> EmptyDict, land_use |-> EmptyDict]

\* the object the methods act on, assembled from the state variables
Self ==
    [pathway |-> pathway, functional_unit |-> functional_unit,
     co2_source |-> co2_source,
     carbon_capture_data |-> carbon_capture_data,
     electrolysis_data |-> electrolysis_data,
     conversion_data |-> conversion_data,
     distribution_data |-> distribution_data,
     use_phase_data |-> use_phase_data,
     results |-> results]

\* SAF_LCA_Model.__init__
NewModel ==
    [pathway |-> "FT", functional_unit |-> "MJ", co2_source |-> "DAC",
     carbon_capture_data |-> EmptyDict,
     electrolysis_data |-> EmptyDict,
     conversion_data |-> EmptyDict,
     distribution_data |-> EmptyDict,
     use_phase_data |-> EmptyDict,
     results |-> EmptyResults]

(***************************************************************************)
(* Parameter store: the five setters.                                       *)
(***************************************************************************)
set_conversion_data(self, technology, efficiency, ghg_emissions, energy_input, water_usage, syngas_requirement, co_h2_ratio) ==
    LET base == [technology |-> technology, efficiency |-> efficiency,
                 ghg_emissions |-> ghg_emissions,
                 energy_input |-> energy_input,
                 water_usage |-> water_usage]
        with_syngas ==
            IF syngas_requirement # None
            THEN [k \in DOMAIN base \cup {"syngas_requirement"} |->
                    IF k = "syngas_requirement" THEN syngas_requirement
                    ELSE base[k]]
            ELSE base
        with_ratio ==
            IF co_h2_ratio # None
            THEN [k \in DOMAIN with_syngas \cup {"co_h2_ratio"} |->
                    IF k = "co_h2_ratio" THEN co_h2_ratio
                    ELSE with_syngas[k]]
            ELSE with_syngas
    IN  Return([self EXCEPT !.conversion_data = with_ratio], None)

\* a store whose derived values leave the distance out
store_distribution_data_per_tonne(self, transport_distance, transport_mode, fuel_density) ==
    LET emission_factor == emission_factors[transport_mode]
        energy_factor == energy_factors[transport_mode]
    IN  Return([self EXCEPT !.distribution_data =
                   [transport_distance |-> transport_distance,
                    transport_mode |-> transport_mode,
                    fuel_density |-> fuel_density,
                    emission_factor |-> emission_factor,
                    energy_factor |-> energy_factor,
                    ghg_emissions |-> Mul(emission_factor, fuel_weight_tonne),
                    energy_input |-> Mul(energy_factor, fuel_weight_tonne)]],
               None)

\* the part of set_distribution_data after the validation: the factors of
\* a recognized mode, the derived values and the store
\* a store whose factors are those of "truck" whatever the mode
store_distribution_data_truck_factors(self, transport_distance, transport_mode, fuel_density) ==
    LET emission_factor == emission_factors["truck"]
        energy_factor == energy_factors["truck"]
    IN  Return([self EXCEPT !.distribution_data =
                   [transport_distance |-> transport_distance,
                    transport_mode |-> transport_mode,
                    fuel_density |-> fuel_density,
                    emission_factor |-> emission_factor,
                    energy_factor |-> energy_factor,
                    ghg_emissions |->
                        Mul(Mul(emission_factor, fuel_weight_tonne),
                            transport_distance),
                    energy_input |->
                        Mul(Mul(energy_factor, fuel_weight_tonne),
                            transport_distance)]], None)

store_distribution_data(self, transport_distance, transport_mode, fuel_density) ==
    LET emission_factor == emission_factors[transport_mode]
        energy_factor == energy_factors[transport_mode]
        transport_emissions ==
            Mul(Mul(emission_factor, fuel_weight_tonne), transport_distance)
        transport_energy ==
            Mul(Mul(energy_factor, fuel_weight_tonne), transport_distance)
    IN  Return([self EXCEPT !.distribution_data =
                   [transport_distance |-> transport_distance,
                    transport_mode |-> transport_mode,
                    fuel_density |-> fuel_density,
                    emission_factor |-> emission_factor,
                    energy_factor |-> energy_factor,
                    ghg_emissions |-> transport_emissions,
                    energy_input |-> transport_energy]], None)

\* a set_distribution_data that stores an unknown mode as "truck" where the
\* method raises
set_distribution_data_fallback(self, transport_distance, transport_mode, fuel_density) ==
    store_distribution_data(self, transport_distance,
        IF transport_mode \in DOMAIN emission_factors
        THEN transport_mode ELSE "truck",
        fuel_density)

set_distribution_data(self, transport_distance, transport_mode, fuel_density) ==
    IF transport_mode \notin DOMAIN emission_factors
    THEN Raise(self, InvalidArgument)
    ELSE store_distribution_data(self, transport_distance, transport_mode,
                                 fuel_density)

\* a setter that drops the stored result
set_use_phase_data_invalidating(self, combustion_emissions, energy_density) ==
    Return([self EXCEPT !.use_phase_data =
               [combustion_emissions |-> combustion_emissions,
                energy_density |-> energy_density],
            !.results = EmptyResults], None)

set_use_phase_data(self, combustion_emissions, energy_density) ==
    Return([self EXCEPT !.use_phase_data =
               [combustion_emissions |-> combustion_emissions,
                energy_density |-> energy_density]], None)

\* a setter that clamps capture_efficiency to at least 1
set_carbon_capture_data_clamped(self, capture_efficiency, energy_requirement, ghg_emissions, water_usage, co2_capture_rate) ==
    Return([self EXCEPT !.carbon_capture_data =
               [capture_efficiency |->
                    IF Less(capture_efficiency, R(1, 1)) THEN R(1, 1)
                    ELSE capture_efficiency,
                energy_requirement |-> energy_requirement,
                ghg_emissions |-> ghg_emissions,
                water_usage |-> water_usage,
                co2_capture_rate |-> co2_capture_rate]], None)

set_carbon_capture_data(self, capture_efficiency, energy_requirement, ghg_emissions, water_usage, co2_capture_rate) ==
    Return([self EXCEPT !.carbon_capture_data =
               [capture_efficiency |-> capture_efficiency,
                energy_requirement |-> energy_requirement,
                ghg_emissions |-> ghg_emissions,
                water_usage |-> water_usage,
                co2_capture_rate |-> co2_capture_rate]], None)

\* a resolution in which the table wins over the caller's intensity
ResolveIntensity_table_first(electricity_source, electricity_carbon_intensity) ==
    IF electricity_source \in DOMAIN electricity_carbon_intensities
    THEN electricity_carbon_intensities[electricity_source]
    ELSE IF electricity_carbon_intensity # None
         THEN electricity_carbon_intensity
         ELSE electricity_carbon_intensities["renewable"]

\* the resolution of electricity_carbon_intensity in set_electrolysis_data
ResolveIntensity(electricity_source, electricity_carbon_intensity) ==
    IF electricity_carbon_intensity = None
    THEN IF electricity_source \in DOMAIN electricity_carbon_intensities
         THEN electricity_carbon_intensities[electricity_source]
         ELSE electricity_carbon_intensities["renewable"]
    ELSE electricity_carbon_intensity

set_electrolysis_data(self, co2_electrolysis_efficiency, water_electrolysis_efficiency, electricity_source, energy_input_co, energy_input_h2, water_usage, electricity_carbon_intensity) ==
    Return([self EXCEPT !.electrolysis_data =
               [co2_electrolysis_efficiency |-> co2_electrolysis_efficiency,
                water_electrolysis_efficiency |->
                    water_electrolysis_efficiency,
                electricity_source |-> electricity_source,
                electricity_carbon_intensity |->
                    ResolveIntensity(electricity_source,
                                     electricity_carbon_intensity),
                energy_input_co |-> energy_input_co,
                energy_input_h2 |-> energy_input_h2,
                water_usage |-> water_usage]], None)

(***************************************************************************)
(* Calculation engine.  The local variables of calculate_lca are operators  *)
(* of self, named as in the source.                                         *)
(***************************************************************************)
GroupNames ==
    {"carbon_capture_data", "electrolysis_data", "conversion_data",
     "distribution_data", "use_phase_data"}

\* the five parameter groups in the order calculate_lca tests them
ParameterGroups(self) ==
    <<self.carbon_capture_data, self.electrolysis_data,
      self.conversion_data, self.distribution_data, self.use_phase_data>>

\* a test that also wants the optional syngas_requirement of the conversion
\* group
AllDataAvailable_with_syngas(self) ==
    /\ \A i \in 1..5 : ParameterGroups(self)[i] # EmptyDict
    /\ "syngas_requirement" \in DOMAIN self.conversion_data

\* all([...]) over the five dicts: a dict is truthy iff it is non-empty
AllDataAvailable(self) ==
    \A i \in 1..5 : ParameterGroups(self)[i] # EmptyDict

\* the divisors of calculate_lca, in the order the code divides by them:
\* energy_density (1 / energy_density), capture_efficiency / 100,
\* 1 + co_h2_ratio, co2_electrolysis_efficiency / 100 and
\* water_electrolysis_efficiency / 100
Divisors(self) ==
    <<self.use_phase_data["energy_density"],
      Div(self.carbon_capture_data["capture_efficiency"], R(100, 1)),
      Add(R(1, 1), Get(self.conversion_data, "co_h2_ratio", R(1, 2))),
      Div(self.electrolysis_data["co2_electrolysis_efficiency"], R(100, 1)),
      Div(self.electrolysis_data["water_electrolysis_efficiency"],
          R(100, 1))>>

\* some division of calculate_lca raises ZeroDivisionError
DivisionRaises(self) ==
    \E i \in 1..5 : IsZero(Divisors(self)[i])

normalization_factor(self) ==
    Div(R(1, 1), self.use_phase_data["energy_density"])

actual_co2_needed(self) ==
    Div(self.carbon_capture_data["co2_capture_rate"],
        Div(self.carbon_capture_data["capture_efficiency"], R(100, 1)))

\* an intensity left in kg CO2e/kWh
elec_intensity_mj_per_kwh(self) ==
    self.electrolysis_data["electricity_carbon_intensity"]

\* kg CO2e/kWh to kg CO2e/MJ
elec_intensity_mj(self) ==
    Div(self.electrolysis_data["electricity_carbon_intensity"], R(36, 10))

\* a ratio that defaults to 1:1
co_h2_ratio_default_one(self) ==
    Get(self.conversion_data, "co_h2_ratio", R(1, 1))

co_h2_ratio(self) == Get(self.conversion_data, "co_h2_ratio", R(1, 2))

\* a syngas need normalized twice
total_syngas_needed_twice(self) ==
    Mul(Mul(Get(self.conversion_data, "syngas_requirement", R(25, 10)),
            normalization_factor(self)), normalization_factor(self))

total_syngas_needed(self) ==
    Mul(Get(self.conversion_data, "syngas_requirement", R(25, 10)),
        normalization_factor(self))

co_needed(self) ==
    Mul(total_syngas_needed(self),
        Div(co_h2_ratio(self), Add(R(1, 1), co_h2_ratio(self))))

h2_needed(self) ==
    Mul(total_syngas_needed(self),
        Div(R(1, 1), Add(R(1, 1), co_h2_ratio(self))))

actual_co_needed(self) ==
    Div(co_needed(self),
        Div(self.electrolysis_data["co2_electrolysis_efficiency"],
            R(100, 1)))

actual_h2_needed(self) ==
    Div(h2_needed(self),
        Div(self.electrolysis_data["water_electrolysis_efficiency"],
            R(100, 1)))

\* a ghg_emissions whose total leaves the use phase out
ghg_emissions_dict_without_use_phase(carbon_capture_ghg, electrolysis_ghg, conversion_ghg, distribution_ghg, use_phase_ghg) ==
    [carbon_capture |-> carbon_capture_ghg,
     electrolysis |-> electrolysis_ghg,
     conversion |-> conversion_ghg,
     distribution |-> distribution_ghg,
     use_phase |-> use_phase_ghg,
     total |-> Add(Add(Add(carbon_capture_ghg, electrolysis_ghg),
                       conversion_ghg), distribution_ghg)]

\* self.results["ghg_emissions"] from the five stage values
ghg_emissions_dict(carbon_capture_ghg, electrolysis_ghg, conversion_ghg, distribution_ghg, use_phase_ghg) ==
    [carbon_capture |-> carbon_capture_ghg,
     electrolysis |-> electrolysis_ghg,
     conversion |-> conversion_ghg,
     distribution |-> distribution_ghg,
     use_phase |-> use_phase_ghg,
     total |-> Add(Add(Add(Add(carbon_capture_ghg, electrolysis_ghg),
                           conversion_ghg), distribution_ghg),
                   use_phase_ghg)]

\* self.results["energy_consumption"] from the four stage values
energy_consumption_dict(carbon_capture_energy, electrolysis_energy, conversion_energy, distribution_energy) ==
    [carbon_capture |-> carbon_capture_energy,
     electrolysis |-> electrolysis_energy,
     conversion |-> conversion_energy,
     distribution |-> distribution_energy,
     total |-> Add(Add(Add(carbon_capture_energy, electrolysis_energy),
                       conversion_energy), distribution_energy)]

\* a water_usage that maps all five stage names
water_usage_dict_five_stages(carbon_capture_water, electrolysis_water, conversion_water) ==
    [carbon_capture |-> carbon_capture_water,
     electrolysis |-> electrolysis_water,
     conversion |-> conversion_water,
     distribution |-> R(0, 1),
     use_phase |-> R(0, 1),
     total |-> Add(Add(carbon_capture_water, electrolysis_water),
                   conversion_water)]

\* self.results["water_usage"] from the three stage values
water_usage_dict(carbon_capture_water, electrolysis_water, conversion_water) ==
    [carbon_capture |-> carbon_capture_water,
     electrolysis |-> electrolysis_water,
     conversion |-> conversion_water,
     total |-> Add(Add(carbon_capture_water, electrolysis_water),
                   conversion_water)]

\* the four result dicts calculate_lca assigns, from its local variables,
\* for a self on which no division raises
Inventory(self, nf, co2_needed, intensity_mj, syngas_needed, co, h2) ==
    [ghg_emissions |->
        ghg_emissions_dict(
            Mul(Mul(self.carbon_capture_data["ghg_emissions"], co2_needed),
                nf),
            Add(Mul(Mul(co, self.electrolysis_data["energy_input_co"]),
                    intensity_mj),
                Mul(Mul(h2, self.electrolysis_data["energy_input_h2"]),
                    intensity_mj)),
            Mul(self.conversion_data["ghg_emissions"], nf),
            Mul(self.distribution_data["ghg_emissions"], nf),
            Mul(self.use_phase_data["combustion_emissions"], nf)),
     energy_consumption |->
        energy_consumption_dict(
            Mul(Mul(self.carbon_capture_data["energy_requirement"],
                    co2_needed), nf),
            Add(Mul(co, self.electrolysis_data["energy_input_co"]),
                Mul(h2, self.electrolysis_data["energy_input_h2"])),
            Mul(self.conversion_data["energy_input"], nf),
            Mul(self.distribution_data["energy_input"], nf)),
     water_usage |->
        water_usage_dict(
            Mul(Mul(self.carbon_capture_data["water_usage"], co2_needed),
                nf),
            Mul(self.electrolysis_data["water_usage"], syngas_needed),
            Mul(self.conversion_data["water_usage"], nf)),
     land_use |-> [total |-> R(0, 1)]]

\* an inventory whose syngas need is scaled by the conversion efficiency
ComputeResults_by_efficiency(self) ==
    Inventory(self, normalization_factor(self), actual_co2_needed(self),
              elec_intensity_mj(self),
              Mul(total_syngas_needed(self),
                  self.conversion_data["efficiency"]),
              actual_co_needed(self), actual_h2_needed(self))

ComputeResults(self) ==
    Inventory(self, normalization_factor(self), actual_co2_needed(self),
              elec_intensity_mj(self), total_syngas_needed(self),
              actual_co_needed(self), actual_h2_needed(self))

\* a store that adds the new GHG total onto the one stored before
StoreResults_accumulating(self, new) ==
    LET updated ==
            IF self.results["ghg_emissions"] = EmptyDict THEN new
            ELSE [new EXCEPT !["ghg_emissions"]["total"] =
                      Add(@, self.results["ghg_emissions"]["total"])]
    IN  Return([self EXCEPT !.results = updated], updated)

\* the four assignments to self.results and the return of calculate_lca
StoreResults(self, new) == Return([self EXCEPT !.results = new], new)

\* a calculate_lca that resets self.results before it raises
calculate_lca_resetting(self) ==
    IF ~AllDataAvailable(self)
    THEN Raise([self EXCEPT !.results = EmptyResults], MissingData)
    ELSE IF DivisionRaises(self)
    THEN Raise([self EXCEPT !.results = EmptyResults], ZeroDivisionError)
    ELSE StoreResults(self, ComputeResults(self))

\* calculate_lca: the missing-data test and every division come before the
\* first assignment to self.results, so a raising call leaves self.results
\* as it was; a returning call has assigned all four categories
calculate_lca(self) ==
    IF ~AllDataAvailable(self) THEN Raise(self, MissingData)
    ELSE IF DivisionRaises(self) THEN Raise(self, ZeroDivisionError)
    ELSE StoreResults(self, ComputeResults(self))

(***************************************************************************)
(* Benchmark calculator.                                                    *)
(***************************************************************************)
\* a reduction clamped at 0
Reduction_clamped(ghg_total, fossil_jet_emissions) ==
    IF Less(fossil_jet_emissions, Mul(ghg_total, R(1000, 1))) THEN R(0, 1)
    ELSE Mul(Div(Sub(fossil_jet_emissions, Mul(ghg_total, R(1000, 1))),
                 fossil_jet_emissions), R(100, 1))

\* (fossil_jet_emissions - saf_emissions) / fossil_jet_emissions * 100 with
\* saf_emissions = ghg total * 1000, for fossil_jet_emissions # 0
Reduction(ghg_total, fossil_jet_emissions) ==
    Mul(Div(Sub(fossil_jet_emissions, Mul(ghg_total, R(1000, 1))),
            fossil_jet_emissions), R(100, 1))

\* calculate_emission_reduction once self.results["ghg_emissions"] is
\* there or the engine has ended as c says
reduction_of(c, fossil_jet_emissions) ==
    IF c.exc # NoError THEN Raise(c.self, c.exc)
    ELSE IF IsZero(fossil_jet_emissions)
         THEN Raise(c.self, ZeroDivisionError)
    ELSE Return(c.self,
                Reduction(c.self.results["ghg_emissions"]["total"],
                          fossil_jet_emissions))

\* a calculate_emission_reduction that runs the engine on a copy and leaves
\* self.results as it found it
calculate_emission_reduction_on_copy(self, fossil_jet_emissions) ==
    LET out == reduction_of(IF self.results["ghg_emissions"] = EmptyDict
                            THEN calculate_lca(self)
                            ELSE Return(self, None),
                            fossil_jet_emissions)
    IN  [out EXCEPT !.self = self]

calculate_emission_reduction(self, fossil_jet_emissions) ==
    reduction_of(IF self.results["ghg_emissions"] = EmptyDict
                 THEN calculate_lca(self)
                 ELSE Return(self, None),
                 fossil_jet_emissions)

\* p >= q
AtLeast(p, q) == ~Less(p, q)

\* statuses of which only the highest one reached is a pass
compliance_status_exclusive(reduction) ==
    [corsia_status |-> AtLeast(reduction, R(10, 1))
                          /\ Less(reduction, R(20, 1)),
     red_status |-> AtLeast(reduction, R(65, 1)),
     lcfs_status |-> AtLeast(reduction, R(20, 1))
                        /\ Less(reduction, R(65, 1))]

\* the three statuses of the benchmark section of print_results, TRUE for
\* PASS and FALSE for FAIL
compliance_status(reduction) ==
    [corsia_status |-> AtLeast(reduction, R(10, 1)),
     red_status |-> AtLeast(reduction, R(65, 1)),
     lcfs_status |-> AtLeast(reduction, R(20, 1))]

\* what print_results prints of the benchmark section: nothing, or the
\* reduction with its three statuses
benchmark_section(self, show_benchmarks) ==
    IF show_benchmarks
    THEN LET reduction == Reduction(self.results["ghg_emissions"]["total"],
                                    R(89, 1))
         IN  <<[reduction |-> reduction] @@ compliance_status(reduction)>>
    ELSE <<>>

\* print_results: returns at once when no result is stored; the detailed
\* breakdown divides by the GHG total and by the energy total
print_results(self, show_detailed, show_summary, show_benchmarks) ==
    IF self.results["ghg_emissions"] = EmptyDict
    THEN Return(self, [available |-> FALSE, benchmarks |-> <<>>])
    ELSE IF /\ show_detailed
            /\ \/ IsZero(self.results["ghg_emissions"]["total"])
               \/ IsZero(self.results["energy_consumption"]["total"])
         THEN Raise(self, ZeroDivisionError)
    ELSE Return(self, [available |-> TRUE,
                       benchmarks |-> benchmark_section(self,
                                                        show_benchmarks)])

\* check_compliance of app.py, the label of one row of the electricity table
check_compliance(reduction) ==
    IF AtLeast(reduction, R(65, 1)) THEN "EU RED II"
    ELSE IF AtLeast(reduction, R(20, 1)) THEN "CA LCFS"
    ELSE IF AtLeast(reduction, R(10, 1)) THEN "CORSIA"
    ELSE "non-compliant"

(***************************************************************************)
(* Sensitivity runner.                                                      *)
(***************************************************************************)
\* None for the optional scenario-list argument of a sweep
NoList == <<"None">>

\* x / y * 100 on DataFrame columns: pandas yields nan or inf, and does not
\* raise, where the divisor is zero
NotANumber == <<1, 0>>

Contribution(part, total) ==
    IF IsZero(total) THEN NotANumber ELSE Mul(Div(part, total), R(100, 1))

default_electricity_sources ==
    <<"renewable_mix", "grid_global", "grid_eu", "grid_us", "grid_china",
      "natural_gas", "coal", "solar", "wind", "hydro", "renewable">>

\* a default list with a mode the factor tables do not hold
default_transport_modes_with_air ==
    <<"truck", "rail", "ship", "barge", "pipeline", "air">>

default_transport_modes == <<"truck", "rail", "ship", "barge", "pipeline">>

\* a scenario step that keeps the intensity the store holds
scenario_electrolysis_pinned(self, source, original_co, original_h2) ==
    set_electrolysis_data(self,
        self.electrolysis_data["co2_electrolysis_efficiency"],
        self.electrolysis_data["water_electrolysis_efficiency"],
        source, original_co, original_h2,
        self.electrolysis_data["water_usage"],
        self.electrolysis_data["electricity_carbon_intensity"])

\* the scenario step of analyze_electricity_sources: overwrite the
\* electrolysis group with the scenario source, intensity from the lookup
scenario_electrolysis(self, source, original_co, original_h2) ==
    set_electrolysis_data(self,
        self.electrolysis_data["co2_electrolysis_efficiency"],
        self.electrolysis_data["water_electrolysis_efficiency"],
        source, original_co, original_h2,
        self.electrolysis_data["water_usage"], None)

\* a restore step that looks the intensity of the original source up again
restore_electrolysis_by_lookup(self, original_source, original_intensity, original_co, original_h2) ==
    set_electrolysis_data(self,
        self.electrolysis_data["co2_electrolysis_efficiency"],
        self.electrolysis_data["water_electrolysis_efficiency"],
        original_source, original_co, original_h2,
        self.electrolysis_data["water_usage"], None)

\* the restore step of analyze_electricity_sources
restore_electrolysis(self, original_source, original_intensity, original_co, original_h2) ==
    set_electrolysis_data(self,
        self.electrolysis_data["co2_electrolysis_efficiency"],
        self.electrolysis_data["water_electrolysis_efficiency"],
        original_source, original_co, original_h2,
        self.electrolysis_data["water_usage"], original_intensity)

\* emission_reduction = (89.0 - saf_emissions) / 89.0 * 100 of a row
row_reduction(saf_emissions) ==
    Mul(Div(Sub(R(89, 1), saf_emissions), R(89, 1)), R(100, 1))

\* the dict analyze_electricity_sources appends to results, with the
\* derived column electrolysis_contribution of the DataFrame
electricity_row_dict(source, carbon_intensity, saf_emissions, electrolysis_emissions) ==
    [electricity_source |-> source,
     carbon_intensity |-> carbon_intensity,
     saf_emissions_mjbasis |-> saf_emissions,
     emission_reduction |-> row_reduction(saf_emissions),
     electrolysis_emissions |-> electrolysis_emissions,
     total_emissions |-> saf_emissions,
     electrolysis_contribution |->
         Contribution(electrolysis_emissions, saf_emissions)]

\* the row of the scenario source, read from self after calculate_lca
electricity_row(self, source) ==
    electricity_row_dict(source,
        self.electrolysis_data["electricity_carbon_intensity"],
        Mul(self.results["ghg_emissions"]["total"], R(1000, 1)),
        Mul(self.results["ghg_emissions"]["electrolysis"], R(1000, 1)))

RECURSIVE electricity_loop(_, _, _, _, _)
\* the rest of a loop iteration of analyze_electricity_sources once the
\* scenario's calculate_lca has ended as c says: an exception leaves the
\* loop at once, with self as the loop has made it
electricity_step(c, sources, original_co, original_h2, rows) ==
    IF c.exc # NoError THEN Raise(c.self, c.exc)
    ELSE electricity_loop(c.self, Tail(sources), original_co, original_h2,
             Append(rows, electricity_row(c.self, Head(sources))))

\* the for loop of analyze_electricity_sources over the remaining sources
electricity_loop(self, sources, original_co, original_h2, rows) ==
    IF sources = <<>> THEN Return(self, rows)
    ELSE IF self.electrolysis_data = EmptyDict THEN Raise(self, KeyError)
    ELSE electricity_step(
             calculate_lca(scenario_electrolysis(self, Head(sources),
                               original_co, original_h2).self),
             sources, original_co, original_h2, rows)

\* the end of a sweep once the recomputation after the restore has ended
\* as c says: df[...] on a DataFrame built from an empty list of rows
\* raises KeyError
sweep_finish(c, rows) ==
    IF c.exc # NoError THEN Raise(c.self, c.exc)
    ELSE IF rows = <<>> THEN Raise(c.self, KeyError)
    ELSE Return(c.self, rows)

\* analyze_electricity_sources after its loop has ended as loop says
electricity_after_loop(loop, original_source, original_intensity, original_co, original_h2) ==
    IF loop.exc # NoError THEN Raise(loop.self, loop.exc)
    ELSE IF loop.self.electrolysis_data = EmptyDict
         THEN Raise(loop.self, KeyError)
    ELSE sweep_finish(
             calculate_lca(restore_electrolysis(loop.self, original_source,
                               original_intensity, original_co,
                               original_h2).self),
             loop.ret)

\* analyze_electricity_sources with the list resolved
electricity_sweep(self, sources, original_source, original_intensity, original_co, original_h2) ==
    electricity_after_loop(
        electricity_loop(self, sources, original_co, original_h2, <<>>),
        original_source, original_intensity, original_co, original_h2)

analyze_electricity_sources(self, electricity_sources) ==
    electricity_sweep(self,
        IF electricity_sources = NoList THEN default_electricity_sources
        ELSE electricity_sources,
        Get(self.electrolysis_data, "electricity_source", "renewable"),
        Get(self.electrolysis_data, "electricity_carbon_intensity",
            R(20, 1000)),
        Get(self.electrolysis_data, "energy_input_co", R(28, 1)),
        Get(self.electrolysis_data, "energy_input_h2", R(55, 1)))

\* a scenario step at the distance the store holds
scenario_distribution_own_distance(self, mode, base_distance, original_density) ==
    set_distribution_data(self,
        Get(self.distribution_data, "transport_distance", R(500, 1)),
        mode, original_density)

\* the scenario step of analyze_transport_modes
scenario_distribution(self, mode, base_distance, original_density) ==
    set_distribution_data(self, base_distance, mode, original_density)

\* a restore step that leaves the scenario in the store
restore_distribution_skipped(self, original_distance, original_mode, original_density) ==
    Return(self, None)

\* the restore step of analyze_transport_modes
restore_distribution(self, original_distance, original_mode, original_density) ==
    set_distribution_data(self, original_distance, original_mode,
                          original_density)

\* the dict analyze_transport_modes appends to results, with the derived
\* column transport_contribution of the DataFrame
transport_row_dict(mode, emission_factor, energy_factor, saf_emissions, transport_emissions) ==
    [transport_mode |-> mode,
     emission_factor |-> emission_factor,
     energy_factor |-> energy_factor,
     transport_emissions |-> transport_emissions,
     saf_emissions_mjbasis |-> saf_emissions,
     emission_reduction |-> row_reduction(saf_emissions),
     total_emissions |-> saf_emissions,
     transport_contribution |->
         Contribution(transport_emissions, saf_emissions)]

\* a row whose transport_emissions is the per-kg value of the store
transport_row_per_kg(self, mode) ==
    transport_row_dict(mode,
        self.distribution_data["emission_factor"],
        self.distribution_data["energy_factor"],
        Mul(self.results["ghg_emissions"]["total"], R(1000, 1)),
        Mul(self.distribution_data["ghg_emissions"], R(1000, 1)))

\* the row of the scenario mode, read from self after calculate_lca
transport_row(self, mode) ==
    transport_row_dict(mode,
        self.distribution_data["emission_factor"],
        self.distribution_data["energy_factor"],
        Mul(self.results["ghg_emissions"]["total"], R(1000, 1)),
        Mul(self.results["ghg_emissions"]["distribution"], R(1000, 1)))

RECURSIVE transport_loop(_, _, _, _, _)
\* the rest of a loop iteration of analyze_transport_modes once the
\* scenario's calculate_lca has ended as c says
transport_step(c, modes, base_distance, original_density, rows) ==
    IF c.exc # NoError THEN Raise(c.self, c.exc)
    ELSE transport_loop(c.self, Tail(modes), base_distance,
             original_density,
             Append(rows, transport_row(c.self, Head(modes))))

\* a loop iteration of analyze_transport_modes once the scenario's
\* set_distribution_data has ended as d says
transport_scenario(d, modes, base_distance, original_density, rows) ==
    IF d.exc # NoError THEN Raise(d.self, d.exc)
    ELSE transport_step(calculate_lca(d.self), modes, base_distance,
                        original_density, rows)

\* the for loop of analyze_transport_modes over the remaining modes
transport_loop(self, modes, base_distance, original_density, rows) ==
    IF modes = <<>> THEN Return(self, rows)
    ELSE transport_scenario(
             scenario_distribution(self, Head(modes), base_distance,
                                   original_density),
             modes, base_distance, original_density, rows)

\* a sweep that returns after the restore without recomputing
transport_restored_without_recalculation(d, rows) ==
    IF d.exc # NoError THEN Raise(d.self, d.exc)
    ELSE sweep_finish(Return(d.self, None), rows)

\* analyze_transport_modes once the restoring set_distribution_data has
\* ended as d says
transport_restored(d, rows) ==
    IF d.exc # NoError THEN Raise(d.self, d.exc)
    ELSE sweep_finish(calculate_lca(d.self), rows)

\* analyze_transport_modes after its loop has ended as loop says
transport_after_loop(loop, original_distance, original_mode, original_density) ==
    IF loop.exc # NoError THEN Raise(loop.self, loop.exc)
    ELSE transport_restored(
             restore_distribution(loop.self, original_distance,
                                  original_mode, original_density),
             loop.ret)

\* analyze_transport_modes with the list resolved
transport_sweep(self, modes, base_distance, original_distance, original_mode, original_density) ==
    transport_after_loop(
        transport_loop(self, modes, base_distance, original_density, <<>>),
        original_distance, original_mode, original_density)

\* a sweep that reads its originals by subscript, with no fallback values
analyze_transport_modes_without_fallback(self, transport_modes, base_distance) ==
    IF self.distribution_data = EmptyDict THEN Raise(self, KeyError)
    ELSE transport_sweep(self,
             IF transport_modes = NoList THEN default_transport_modes
             ELSE transport_modes,
             base_distance,
             self.distribution_data["transport_distance"],
             self.distribution_data["transport_mode"],
             self.distribution_data["fuel_density"])

analyze_transport_modes(self, transport_modes, base_distance) ==
    transport_sweep(self,
        IF transport_modes = NoList THEN default_transport_modes
        ELSE transport_modes,
        base_distance,
        Get(self.distribution_data, "transport_distance", R(500, 1)),
        Get(self.distribution_data, "transport_mode", "truck"),
        Get(self.distribution_data, "fuel_density", R(8, 10)))

(***************************************************************************)
(* Inputs of the calls: values near the example configuration of the        *)
(* source's __main__ block, and around them the values that make the cases  *)
(* of the engine and the sweeps happen (a zero divisor, an unrecognized     *)
(* source or mode, a pinned intensity, an omitted optional argument).       *)
(***************************************************************************)
\* (capture_efficiency): the example value and a zero divisor
CaptureEfficiencyInputs == {R(80, 1), R(0, 1)}

\* (co2 efficiency, water efficiency, source, intensity override)
ElectrolysisInputs ==
    {<<R(50, 1), R(75, 1), "wind", None>>,
     <<R(50, 1), R(75, 1), "tidal", None>>,
     <<R(50, 1), R(75, 1), "wind", R(50, 1000)>>,
     <<R(0, 1), R(75, 1), "wind", None>>,
     <<R(50, 1), R(0, 1), "wind", None>>}

\* (syngas_requirement, co_h2_ratio)
ConversionInputs ==
    {<<None, None>>, <<R(2, 1), R(-1, 1)>>}

TransportDistanceInputs == {R(100, 1), R(500, 1)}

TransportModeInputs == {"truck", "teleport"}

\* (combustion_emissions, energy_density)
UsePhaseInputs ==
    {<<R(3, 1), R(40, 1)>>, <<R(3, 1), R(0, 1)>>}

FossilBaselineInputs == {R(89, 1), R(10, 1)}

SweepSourceInputs == {"wind", "tidal"}

SweepModeInputs == {"pipeline", "rail", "teleport"}

BaseDistanceInputs == {R(500, 1), R(100, 1)}

\* the sequences over S of length at most n
SeqsUpTo(S, n) == UNION {[1..k -> S] : k \in 0..n}

(***************************************************************************)
(* The state machine: one action per public method call.                    *)
(***************************************************************************)
\* the parameter group each setter stores
GroupOfSetter ==
    [set_carbon_capture_data |-> "carbon_capture_data",
     set_electrolysis_data |-> "electrolysis_data",
     set_conversion_data |-> "conversion_data",
     set_distribution_data |-> "distribution_data",
     set_use_phase_data |-> "use_phase_data"]

\* the stored result as a caller finds it: empty (as __init__ leaves it),
\* fresh (what calculate_lca yields on the present parameter groups) or
\* stale
StoredResult(self) ==
    IF self.results["ghg_emissions"] = EmptyDict THEN "empty"
    ELSE IF /\ AllDataAvailable(self)
            /\ ~DivisionRaises(self)
            /\ self.results = ComputeResults(self) THEN "fresh"
    ELSE "stale"

\* last, before any call
Constructed ==
    [op |-> "__init__", args |-> <<>>, exc |-> NoError, ret |-> None,
     repeat |-> FALSE, before |-> "empty", replaced |-> {}]

\* one caller at a time: no call is in progress between two steps
NoCallers == [of |-> <<>>, overlapped |-> FALSE, before |-> NewModel]

Init ==
    /\ pathway = NewModel.pathway
    /\ functional_unit = NewModel.functional_unit
    /\ co2_source = NewModel.co2_source
    /\ carbon_capture_data = NewModel.carbon_capture_data
    /\ electrolysis_data = NewModel.electrolysis_data
    /\ conversion_data = NewModel.conversion_data
    /\ distribution_data = NewModel.distribution_data
    /\ use_phase_data = NewModel.use_phase_data
    /\ results = NewModel.results
    /\ last = Constructed
    /\ was_set = {}
    /\ callers = NoCallers

\* the call op(args) has ended as out says: the instance is what the call
\* left, and last records the call, how it ended, whether it repeats the
\* call before it (same method, same arguments, both returning) and what
\* the stored result was when it began
Finish(op, args, out) ==
    /\ pathway' = out.self.pathway
    /\ functional_unit' = out.self.functional_unit
    /\ co2_source' = out.self.co2_source
    /\ carbon_capture_data' = out.self.carbon_capture_data
    /\ electrolysis_data' = out.self.electrolysis_data
    /\ conversion_data' = out.self.conversion_data
    /\ distribution_data' = out.self.distribution_data
    /\ use_phase_data' = out.self.use_phase_data
    /\ results' = out.self.results
    /\ last' = [op |-> op, args |-> args, exc |-> out.exc, ret |-> out.ret,
                repeat |-> /\ last.op = op
                           /\ last.args = args
                           /\ last.exc = NoError
                           /\ out.exc = NoError,
                before |-> StoredResult(Self),
                replaced |-> IF op \in DOMAIN GroupOfSetter
                             THEN DOMAIN Self[GroupOfSetter[op]]
                             ELSE {}]
    /\ was_set' = IF op \in DOMAIN GroupOfSetter /\ out.exc = NoError
                  THEN was_set \cup {GroupOfSetter[op]}
                  ELSE was_set
    /\ callers' = callers

\* the setter calls the callers make: the varied arguments above, the
\* other arguments as in the example configuration
CarbonCaptureCall(self, capture_efficiency) ==
    set_carbon_capture_data(self, capture_efficiency, R(20, 1), R(8, 100),
                            R(5, 1), R(3, 1))

ElectrolysisCall(self, e) ==
    set_electrolysis_data(self, e[1], e[2], e[3], R(28, 1), R(55, 1),
                          R(20, 1), e[4])

ConversionCall(self, c) ==
    set_conversion_data(self, "Fischer-Tropsch", R(65, 100), R(2, 10),
                        R(25, 1), R(5, 1), c[1], c[2])

DistributionCall(self, transport_distance, transport_mode) ==
    set_distribution_data(self, transport_distance, transport_mode,
                          R(8, 10))

UsePhaseCall(self, u) == set_use_phase_data(self, u[1], u[2])

Call_set_carbon_capture_data ==
    \E capture_efficiency \in CaptureEfficiencyInputs :
        Finish("set_carbon_capture_data", <<capture_efficiency>>,
               CarbonCaptureCall(Self, capture_efficiency))

Call_set_electrolysis_data ==
    \E e \in ElectrolysisInputs :
        Finish("set_electrolysis_data", e, ElectrolysisCall(Self, e))

Call_set_conversion_data ==
    \E c \in ConversionInputs :
        Finish("set_conversion_data", c, ConversionCall(Self, c))

Call_set_distribution_data ==
    \E transport_distance \in TransportDistanceInputs,
       transport_mode \in TransportModeInputs :
        Finish("set_distribution_data",
               [transport_distance |-> transport_distance,
                transport_mode |-> transport_mode],
               DistributionCall(Self, transport_distance, transport_mode))

Call_set_use_phase_data ==
    \E u \in UsePhaseInputs :
        Finish("set_use_phase_data", u, UsePhaseCall(Self, u))

Call_calculate_lca ==
    Finish("calculate_lca", <<>>, calculate_lca(Self))

Call_calculate_emission_reduction ==
    \E fossil_jet_emissions \in FossilBaselineInputs :
        Finish("calculate_emission_reduction", <<fossil_jet_emissions>>,
               calculate_emission_reduction(Self, fossil_jet_emissions))

\* the lists a caller hands to a sweep: every list of the inputs up to the
\* bound, and no list at all (the default list is swept)
ElectricityListInputs == SeqsUpTo(SweepSourceInputs, MaxSweepLen) \cup {NoList}

TransportListInputs == SeqsUpTo(SweepModeInputs, MaxSweepLen) \cup {NoList}

Call_analyze_electricity_sources ==
    \E electricity_sources \in ElectricityListInputs :
        Finish("analyze_electricity_sources",
               [electricity_sources |-> electricity_sources],
               analyze_electricity_sources(Self, electricity_sources))

Call_analyze_transport_modes ==
    \E transport_modes \in TransportListInputs,
       base_distance \in BaseDistanceInputs :
        Finish("analyze_transport_modes",
               [transport_modes |-> transport_modes,
                base_distance |-> base_distance],
               analyze_transport_modes(Self, transport_modes,
                                       base_distance))

\* parameter store, engine and benchmark calculator, from construction
Next ==
    \/ Call_set_carbon_capture_data
    \/ Call_set_electrolysis_data
    \/ Call_set_conversion_data
    \/ Call_set_distribution_data
    \/ Call_set_use_phase_data
    \/ Call_calculate_lca
    \/ Call_calculate_emission_reduction

Spec == Init /\ [][Next]_vars

(***************************************************************************)
(* The sensitivity runner on a configured model.  The initial states are    *)
(* the states setter and calculate_lca calls lead to: every group unset or  *)
(* as one setter call with the inputs above stores it (of the zero          *)
(* divisors, co_h2_ratio = -1 only), and the stored result empty, fresh     *)
(* (calculate_lca on the present groups) or stale (calculate_lca on the     *)
(* example configuration, setters called since).                            *)
(***************************************************************************)
\* (transport_distance, transport_mode)
ConfiguredDistributionInputs ==
    {<<R(100, 1), "truck">>, <<R(500, 1), "pipeline">>}

ExampleModel ==
    LET m1 == UsePhaseCall(NewModel, <<R(3, 1), R(40, 1)>>).self
        m2 == CarbonCaptureCall(m1, R(80, 1)).self
        m3 == ElectrolysisCall(m2, <<R(50, 1), R(75, 1), "wind", None>>).self
        m4 == ConversionCall(m3, <<None, None>>).self
        m5 == DistributionCall(m4, R(500, 1), "truck").self
    IN  m5

\* each group unset or as a setter call with non-zero divisors stores it
ConfiguredModels ==
    {[NewModel EXCEPT !.carbon_capture_data = cc, !.electrolysis_data = el,
                      !.conversion_data = cv, !.distribution_data = di,
                      !.use_phase_data = up] :
       cc \in {EmptyDict} \cup
              {CarbonCaptureCall(NewModel, x).self.carbon_capture_data :
                  x \in {y \in CaptureEfficiencyInputs : ~IsZero(y)}},
       el \in {EmptyDict} \cup
              {ElectrolysisCall(NewModel, x).self.electrolysis_data :
                  x \in {y \in ElectrolysisInputs :
                            ~IsZero(y[1]) /\ ~IsZero(y[2])}},
       cv \in {EmptyDict} \cup
              {ConversionCall(NewModel, x).self.conversion_data :
                  x \in ConversionInputs},
       di \in {EmptyDict} \cup
              {DistributionCall(NewModel, x[1], x[2]).self.distribution_data :
                  x \in ConfiguredDistributionInputs},
       up \in {EmptyDict} \cup
              {UsePhaseCall(NewModel, x).self.use_phase_data :
                  x \in {y \in UsePhaseInputs : ~IsZero(y[2])}}}

\* the results calculate_lca calls can have left on a model now configured
\* as m
StoredResults(m) ==
    {EmptyResults, calculate_lca(ExampleModel).self.results,
     calculate_lca(m).self.results}

\* last, when the caller holds no outcome of a call
Idle ==
    [op |-> "idle", args |-> <<>>, exc |-> NoError, ret |-> None,
     repeat |-> FALSE, before |-> "empty", replaced |-> {}]

InitConfigured ==
    \E m \in ConfiguredModels :
        /\ pathway = m.pathway
        /\ functional_unit = m.functional_unit
        /\ co2_source = m.co2_source
        /\ carbon_capture_data = m.carbon_capture_data
        /\ electrolysis_data = m.electrolysis_data
        /\ conversion_data = m.conversion_data
        /\ distribution_data = m.distribution_data
        /\ use_phase_data = m.use_phase_data
        /\ results \in StoredResults(m)
        /\ last = Idle
        /\ was_set = {g \in GroupNames : m[g] # EmptyDict}
        /\ callers = NoCallers

\* the caller has taken what the call returned or raised (as in
\* electricity_analysis = self.analyze_electricity_sources()) and is about to
\* make its next call
Collect ==
    /\ last.op # Idle.op
    /\ last' = Idle
    /\ UNCHANGED <<pathway, functional_unit, co2_source, carbon_capture_data,
                   electrolysis_data, conversion_data, distribution_data,
                   use_phase_data, results, was_set, callers>>

\* the caller makes one call at a time and takes its outcome before the
\* next one
NextSweep ==
    \/ last.op = Idle.op /\ Call_calculate_lca
    \/ last.op = Idle.op /\ Call_calculate_emission_reduction
    \/ last.op = Idle.op /\ Call_analyze_electricity_sources
    \/ last.op = Idle.op /\ Call_analyze_transport_modes
    \/ Collect

SpecSweep == InitConfigured /\ [][NextSweep]_vars

(***************************************************************************)
(* Setting a model up, as __main__ does: the caller sets parameters, each   *)
(* setter with all of its arguments, calculates, and sets nothing more      *)
(* once a result is stored.  The arguments are those of the documented      *)
(* example and, around them, an unrecognized source or mode, an intensity   *)
(* override, omitted optional arguments, zeros and negative values.         *)
(***************************************************************************)
\* (capture_efficiency, energy_requirement, ghg_emissions, water_usage,
\* co2_capture_rate)
CarbonCaptureArguments ==
    {<<R(80, 1), R(20, 1), R(8, 100), R(5, 1), R(31, 10)>>,
     <<R(0, 1), R(20, 1), R(8, 100), R(5, 1), R(31, 10)>>,
     <<R(-80, 1), R(-20, 1), R(-8, 100), R(-5, 1), R(-31, 10)>>}

\* (co2_electrolysis_efficiency, water_electrolysis_efficiency,
\* electricity_source, energy_input_co, energy_input_h2, water_usage,
\* electricity_carbon_intensity)
ElectrolysisArguments ==
    {<<R(65, 1), R(75, 1), "wind", R(28, 1), R(55, 1), R(20, 1), None>>,
     <<R(65, 1), R(75, 1), "tidal", R(28, 1), R(55, 1), R(20, 1), None>>,
     <<R(65, 1), R(75, 1), "wind", R(28, 1), R(55, 1), R(20, 1),
       R(50, 1000)>>,
     <<R(65, 1), R(75, 1), "tidal", R(28, 1), R(55, 1), R(20, 1),
       R(50, 1000)>>,
     <<R(0, 1), R(0, 1), "wind", R(28, 1), R(55, 1), R(20, 1), None>>,
     <<R(-65, 1), R(-75, 1), "wind", R(-28, 1), R(-55, 1), R(-20, 1),
       None>>}

\* (technology, efficiency, ghg_emissions, energy_input, water_usage,
\* syngas_requirement, co_h2_ratio)
ConversionArguments ==
    {<<"Fischer-Tropsch", R(65, 100), R(2, 10), R(25, 1), R(5, 1),
       R(213, 100), R(923, 1000)>>,
     <<"Fischer-Tropsch", R(65, 100), R(2, 10), R(25, 1), R(5, 1),
       None, None>>,
     <<"Fischer-Tropsch", R(65, 100), R(2, 10), R(25, 1), R(5, 1),
       R(2, 1), None>>,
     <<"Fischer-Tropsch", R(65, 100), R(2, 10), R(25, 1), R(5, 1),
       None, R(1, 1)>>,
     <<"Fischer-Tropsch", R(-65, 100), R(-2, 10), R(-25, 1), R(-5, 1),
       None, None>>}

\* (transport_distance, transport_mode, fuel_density)
DistributionArguments ==
    {<<R(500, 1), "truck", R(8, 10)>>,
     <<R(500, 1), "rail", R(8, 10)>>,
     <<R(-500, 1), "truck", R(-8, 10)>>,
     <<R(500, 1), "teleport", R(8, 10)>>}

\* (combustion_emissions, energy_density)
UsePhaseArguments ==
    {<<R(0, 1), R(43, 1)>>, <<R(0, 1), R(0, 1)>>, <<R(0, 1), R(-43, 1)>>}

\* no result is stored yet: the caller is still setting the model up
SettingUp == results["ghg_emissions"] = EmptyDict

Setup_set_carbon_capture_data ==
    \E a \in CarbonCaptureArguments :
        /\ SettingUp
        /\ Finish("set_carbon_capture_data", a,
                  set_carbon_capture_data(Self, a[1], a[2], a[3], a[4],
                                          a[5]))

Setup_set_electrolysis_data ==
    \E a \in ElectrolysisArguments :
        /\ SettingUp
        /\ Finish("set_electrolysis_data", a,
                  set_electrolysis_data(Self, a[1], a[2], a[3], a[4], a[5],
                                        a[6], a[7]))

Setup_set_conversion_data ==
    \E a \in ConversionArguments :
        /\ SettingUp
        /\ Finish("set_conversion_data", a,
                  set_conversion_data(Self, a[1], a[2], a[3], a[4], a[5],
                                      a[6], a[7]))

Setup_set_distribution_data ==
    \E a \in DistributionArguments :
        /\ SettingUp
        /\ Finish("set_distribution_data",
                  [transport_distance |-> a[1], transport_mode |-> a[2],
                   fuel_density |-> a[3]],
                  set_distribution_data(Self, a[1], a[2], a[3]))

Setup_set_use_phase_data ==
    \E a \in UsePhaseArguments :
        /\ SettingUp
        /\ Finish("set_use_phase_data", a,
                  set_use_phase_data(Self, a[1], a[2]))

\* a new model, no call made yet
InitSetup ==
    /\ pathway = NewModel.pathway
    /\ functional_unit = NewModel.functional_unit
    /\ co2_source = NewModel.co2_source
    /\ carbon_capture_data = NewModel.carbon_capture_data
    /\ electrolysis_data = NewModel.electrolysis_data
    /\ conversion_data = NewModel.conversion_data
    /\ distribution_data = NewModel.distribution_data
    /\ use_phase_data = NewModel.use_phase_data
    /\ results = NewModel.results
    /\ last = Idle
    /\ was_set = {}
    /\ callers = NoCallers

NextSetup ==
    \/ last.op = Idle.op /\ Setup_set_carbon_capture_data
    \/ last.op = Idle.op /\ Setup_set_electrolysis_data
    \/ last.op = Idle.op /\ Setup_set_conversion_data
    \/ last.op = Idle.op /\ Setup_set_distribution_data
    \/ last.op = Idle.op /\ Setup_set_use_phase_data
    \/ last.op = Idle.op /\ Call_calculate_lca
    \/ Collect

SpecSetup == InitSetup /\ [][NextSetup]_vars

\* the model __main__ sets up
DocumentedModel ==
    LET m1 == set_use_phase_data(NewModel, R(0, 1), R(43, 1)).self
        m2 == set_carbon_capture_data(m1, R(80, 1), R(20, 1), R(8, 100),
                                      R(5, 1), R(31, 10)).self
        m3 == set_electrolysis_data(m2, R(65, 1), R(75, 1), "wind",
                                    R(28, 1), R(55, 1), R(20, 1), None).self
        m4 == set_conversion_data(m3, "Fischer-Tropsch", R(65, 100),
                                  R(2, 10), R(25, 1), R(5, 1), R(213, 100),
                                  R(923, 1000)).self
        m5 == set_distribution_data(m4, R(500, 1), "truck", R(8, 10)).self
    IN  m5

(***************************************************************************)
(* Reporting.  The models reported on have no emissions but those of the    *)
(* use phase, so that combustion_emissions alone places the reduction       *)
(* below, at and above each of the three thresholds: with an energy_density *)
(* of 1 MJ/kg the GHG total is combustion_emissions, and the reduction      *)
(* against 89 g CO2e/MJ is 10 at 0.0801, 20 at 0.0712 and 65 at 0.03115.    *)
(***************************************************************************)
CombustionInputs ==
    {R(0, 1), R(1, 100), R(3115, 100000), R(312, 10000), R(5, 100),
     R(712, 10000), R(713, 10000), R(75, 1000), R(801, 10000),
     R(802, 10000), R(89, 1000), R(1, 10)}

ReportedModel(combustion_emissions) ==
    LET m1 == set_use_phase_data(NewModel, combustion_emissions,
                                 R(1, 1)).self
        m2 == set_carbon_capture_data(m1, R(80, 1), R(20, 1), R(0, 1),
                                      R(5, 1), R(31, 10)).self
        m3 == set_electrolysis_data(m2, R(65, 1), R(75, 1), "wind",
                                    R(0, 1), R(0, 1), R(20, 1), None).self
        m4 == set_conversion_data(m3, "Fischer-Tropsch", R(65, 100),
                                  R(0, 1), R(25, 1), R(5, 1), None,
                                  None).self
        m5 == set_distribution_data(m4, R(0, 1), "pipeline", R(8, 10)).self
    IN  m5

ReportedModels == {ReportedModel(c) : c \in CombustionInputs}

InitReporting ==
    \E m \in ReportedModels :
        /\ pathway = m.pathway
        /\ functional_unit = m.functional_unit
        /\ co2_source = m.co2_source
        /\ carbon_capture_data = m.carbon_capture_data
        /\ electrolysis_data = m.electrolysis_data
        /\ conversion_data = m.conversion_data
        /\ distribution_data = m.distribution_data
        /\ use_phase_data = m.use_phase_data
        /\ results \in {EmptyResults, calculate_lca(m).self.results}
        /\ last = Idle
        /\ was_set = GroupNames
        /\ callers = NoCallers

Call_print_results ==
    \E show_detailed \in BOOLEAN, show_benchmarks \in BOOLEAN :
        Finish("print_results",
               [show_detailed |-> show_detailed, show_summary |-> TRUE,
                show_benchmarks |-> show_benchmarks],
               print_results(Self, show_detailed, TRUE, show_benchmarks))

\* the compliance column of the electricity table: check_compliance applied
\* to the emission_reduction of every row the sweep returned
Call_check_compliance ==
    /\ last.op = "analyze_electricity_sources"
    /\ last.exc = NoError
    /\ LET reductions == [i \in 1..Len(last.ret) |->
                             last.ret[i].emission_reduction]
       IN  Finish("check_compliance", reductions,
                  Return(Self, [i \in 1..Len(reductions) |->
                                   check_compliance(reductions[i])]))

NextReporting ==
    \/ last.op = Idle.op /\ Call_calculate_lca
    \/ last.op = Idle.op /\ Call_print_results
    \/ last.op = Idle.op /\ Call_analyze_electricity_sources
    \/ Call_check_compliance
    \/ Collect

SpecReporting == InitReporting /\ [][NextReporting]_vars

(***************************************************************************)
(* Callers sharing one instance, as the sessions of the app share the model *)
(* create_model caches.  Nothing in the class locks, so the calls advance   *)
(* step by step in any order; a step is one method call on the instance or  *)
(* one group of reads of its attributes.                                    *)
(***************************************************************************)
\* a call that has not begun
NewCall(op, list, base_distance) ==
    [op |-> op, pc |-> "start", todo |-> list,
     base_distance |-> base_distance, original |-> <<>>, rows |-> <<>>,
     exc |-> NoError, ret |-> None]

SweepCalls ==
    {NewCall("analyze_transport_modes", <<"pipeline">>, R(100, 1)),
     NewCall("analyze_transport_modes", <<"rail">>, R(500, 1)),
     NewCall("analyze_electricity_sources", <<"coal">>, None)}

\* the call has ended with an exception
Raised(c, exc) == [c EXCEPT !.pc = "done", !.exc = exc]

\* the step of a call that ran the method call out: on to pc, or out of
\* the sweep with the exception
After(out, c, pc) ==
    [self |-> out.self,
     caller |-> IF out.exc # NoError THEN Raised(c, out.exc)
                ELSE [c EXCEPT !.pc = pc]]

\* one step of analyze_transport_modes
transport_sweep_step(self, c) ==
    CASE c.pc = "start" ->
           [self |-> self,
            caller |-> [c EXCEPT
               !.todo = IF c.todo = NoList THEN default_transport_modes
                        ELSE c.todo,
               !.original =
                   <<Get(self.distribution_data, "transport_distance",
                         R(500, 1)),
                     Get(self.distribution_data, "transport_mode", "truck"),
                     Get(self.distribution_data, "fuel_density", R(8, 10))>>,
               !.pc = IF c.todo = <<>> THEN "restore" ELSE "scenario"]]
      [] c.pc = "scenario" ->
           After(scenario_distribution(self, Head(c.todo), c.base_distance,
                                       c.original[3]), c, "calculate")
      [] c.pc = "calculate" -> After(calculate_lca(self), c, "row")
      [] c.pc = "row" ->
           [self |-> self,
            caller |-> [c EXCEPT
               !.rows = Append(c.rows, transport_row(self, Head(c.todo))),
               !.todo = Tail(c.todo),
               !.pc = IF Tail(c.todo) = <<>> THEN "restore"
                      ELSE "scenario"]]
      [] c.pc = "restore" ->
           After(restore_distribution(self, c.original[1], c.original[2],
                                      c.original[3]), c, "recalculate")
      [] c.pc = "recalculate" -> After(calculate_lca(self), c, "frame")
      [] c.pc = "frame" ->
           LET out == sweep_finish(Return(self, None), c.rows)
           IN  [self |-> self,
                caller |-> [c EXCEPT !.pc = "done", !.exc = out.exc,
                                     !.ret = out.ret]]

\* one step of analyze_electricity_sources
electricity_sweep_step(self, c) ==
    CASE c.pc = "start" ->
           [self |-> self,
            caller |-> [c EXCEPT
               !.todo = IF c.todo = NoList THEN default_electricity_sources
                        ELSE c.todo,
               !.original =
                   <<Get(self.electrolysis_data, "electricity_source",
                         "renewable"),
                     Get(self.electrolysis_data,
                         "electricity_carbon_intensity", R(20, 1000)),
                     Get(self.electrolysis_data, "energy_input_co",
                         R(28, 1)),
                     Get(self.electrolysis_data, "energy_input_h2",
                         R(55, 1))>>,
               !.pc = IF c.todo = <<>> THEN "restore" ELSE "scenario"]]
      [] c.pc = "scenario" ->
           IF self.electrolysis_data = EmptyDict
           THEN [self |-> self, caller |-> Raised(c, KeyError)]
           ELSE After(scenario_electrolysis(self, Head(c.todo),
                                            c.original[3], c.original[4]),
                      c, "calculate")
      [] c.pc = "calculate" -> After(calculate_lca(self), c, "row")
      [] c.pc = "row" ->
           [self |-> self,
            caller |-> [c EXCEPT
               !.rows = Append(c.rows, electricity_row(self, Head(c.todo))),
               !.todo = Tail(c.todo),
               !.pc = IF Tail(c.todo) = <<>> THEN "restore"
                      ELSE "scenario"]]
      [] c.pc = "restore" ->
           IF self.electrolysis_data = EmptyDict
           THEN [self |-> self, caller |-> Raised(c, KeyError)]
           ELSE After(restore_electrolysis(self, c.original[1],
                                           c.original[2], c.original[3],
                                           c.original[4]),
                      c, "recalculate")
      [] c.pc = "recalculate" -> After(calculate_lca(self), c, "frame")
      [] c.pc = "frame" ->
           LET out == sweep_finish(Return(self, None), c.rows)
           IN  [self |-> self,
                caller |-> [c EXCEPT !.pc = "done", !.exc = out.exc,
                                     !.ret = out.ret]]

\* a direct calculate_lca call, one step
calculate_step(self, c) ==
    LET out == calculate_lca(self)
    IN  [self |-> out.self,
         caller |-> [c EXCEPT !.pc = "done", !.exc = out.exc,
                              !.ret = out.ret]]

\* some caller other than p is inside its call
OthersInside(p) ==
    \E q \in DOMAIN callers.of \ {p} :
        callers.of[q].pc \notin {"start", "done"}

\* caller p takes the step out of its call
Advance(p, out) ==
    /\ pathway' = out.self.pathway
    /\ functional_unit' = out.self.functional_unit
    /\ co2_source' = out.self.co2_source
    /\ carbon_capture_data' = out.self.carbon_capture_data
    /\ electrolysis_data' = out.self.electrolysis_data
    /\ conversion_data' = out.self.conversion_data
    /\ distribution_data' = out.self.distribution_data
    /\ use_phase_data' = out.self.use_phase_data
    /\ results' = out.self.results
    /\ callers' = [callers EXCEPT
                      !.of[p] = out.caller,
                      !.overlapped = callers.overlapped \/ OthersInside(p)]
    /\ last' = last
    /\ was_set' = was_set

Step_analyze_transport_modes ==
    \E p \in DOMAIN callers.of :
        /\ callers.of[p].op = "analyze_transport_modes"
        /\ callers.of[p].pc # "done"
        /\ Advance(p, transport_sweep_step(Self, callers.of[p]))

Step_analyze_electricity_sources ==
    \E p \in DOMAIN callers.of :
        /\ callers.of[p].op = "analyze_electricity_sources"
        /\ callers.of[p].pc # "done"
        /\ Advance(p, electricity_sweep_step(Self, callers.of[p]))

Step_calculate_lca ==
    \E p \in DOMAIN callers.of :
        /\ callers.of[p].op = "calculate_lca"
        /\ callers.of[p].pc # "done"
        /\ Advance(p, calculate_step(Self, callers.of[p]))

\* the shared model is configured and calculated; two callers are about
\* to run a sweep each and a third to call calculate_lca
InitShared ==
    \E first \in SweepCalls, second \in SweepCalls :
        /\ pathway = ExampleModel.pathway
        /\ functional_unit = ExampleModel.functional_unit
        /\ co2_source = ExampleModel.co2_source
        /\ carbon_capture_data = ExampleModel.carbon_capture_data
        /\ electrolysis_data = ExampleModel.electrolysis_data
        /\ conversion_data = ExampleModel.conversion_data
        /\ distribution_data = ExampleModel.distribution_data
        /\ use_phase_data = ExampleModel.use_phase_data
        /\ results = calculate_lca(ExampleModel).self.results
        /\ last = Idle
        /\ was_set = GroupNames
        /\ callers = [of |-> <<first, second,
                               NewCall("calculate_lca", <<>>, None)>>,
                      overlapped |-> FALSE,
                      before |-> calculate_lca(ExampleModel).self]

NextShared ==
    \/ Step_analyze_transport_modes
    \/ Step_analyze_electricity_sources
    \/ Step_calculate_lca

SpecShared == InitShared /\ [][NextShared]_vars

(***************************************************************************)
(* Properties.                                                              *)
(***************************************************************************)
SetterOps == DOMAIN GroupOfSetter

SweepOps == {"analyze_electricity_sources", "analyze_transport_modes"}

TransportModes == {"truck", "rail", "ship", "barge", "pipeline"}

StageNames ==
    {"carbon_capture", "electrolysis", "conversion", "distribution",
     "use_phase"}

\* the five parameter groups of the instance, now
Groups ==
    <<carbon_capture_data, electrolysis_data, conversion_data,
      distribution_data, use_phase_data>>

\* the sum of the entries of dict d under the keys ks
RECURSIVE SumOver(_, _)
SumOver(d, ks) ==
    IF ks = {} THEN R(0, 1)
    ELSE LET k == CHOOSE x \in ks : TRUE
         IN  Add(d[k], SumOver(d, ks \ {k}))

\* the sum of the stage entries of a result category
StageSum(d) == SumOver(d, DOMAIN d \ {"total"})

\* the stored electricity_carbon_intensity is not the lookup value of the
\* stored source: it was pinned by an explicit override
IntensityPinned ==
    /\ electrolysis_data # EmptyDict
    /\ electrolysis_data["electricity_carbon_intensity"] #
           ResolveIntensity(electrolysis_data["electricity_source"], None)

\* C1: on a model whose five groups are set and whose stored result is
\* what calculate_lca yields on them, a sweep that completes leaves every
\* field of the five parameter groups and the stored result as they were,
\* and calculate_lca run again returns the result stored before the sweep.
C1_SweepRestoresState ==
    [][(/\ last'.op \in SweepOps
        /\ last'.exc = NoError
        /\ StoredResult(Self) = "fresh")
       => (/\ Groups' = Groups
           /\ results' = results
           /\ calculate_lca(Self').exc = NoError
           /\ calculate_lca(Self').ret = results)]_vars

\* C1 witness: a transport sweep at a base_distance other than the model's
\* transport_distance has completed on a model with fresh results and a
\* pinned electricity_carbon_intensity.
C1_Witness ==
    /\ last.op = "analyze_transport_modes"
    /\ last.exc = NoError
    /\ last.before = "fresh"
    /\ IntensityPinned
    /\ distribution_data["transport_distance"] # last.args.base_distance

\* in the list modes an unrecognized mode follows a recognized one
UnrecognizedAfterRecognized(modes) ==
    \E i, j \in 1..Len(modes) :
        /\ i < j
        /\ modes[i] \in TransportModes
        /\ modes[j] \notin TransportModes

\* the group the sweep op varies is set and another group is not
OtherGroupUnset(op) ==
    LET varied == IF op = "analyze_electricity_sources" THEN 2 ELSE 4
    IN  /\ Groups[varied] # EmptyDict
        /\ \E i \in 1..5 : Groups[i] = EmptyDict

\* C2: when a sweep ends by raising, because analyze_transport_modes was
\* given a list in which an unrecognized mode follows a recognized one or
\* because another group is unset and calculate_lca raises the
\* missing-data error inside the loop, the parameter groups and the stored
\* result equal their pre-sweep values.
C2_RaisingSweepRestoresState ==
    [][(/\ last'.op \in SweepOps
        /\ \/ /\ last'.op = "analyze_transport_modes"
              /\ UnrecognizedAfterRecognized(last'.args.transport_modes)
              /\ last'.exc = InvalidArgument
           \/ /\ OtherGroupUnset(last'.op)
              /\ last'.exc = MissingData
              /\ IF last'.op = "analyze_transport_modes"
                 THEN last'.args.transport_modes # <<>>
                 ELSE last'.args.electricity_sources # <<>>)
       => (Groups' = Groups /\ results' = results)]_vars

\* C3: calculate_lca raises the missing-data error exactly when some
\* parameter group has never been stored by a successful setter call.
C3_MissingDataIffGroupNeverSet ==
    last.op = "calculate_lca"
        => ((last.exc = MissingData) <=> (was_set # GroupNames))

\* C3 witness: calculate_lca has raised the missing-data error after a
\* set_distribution_data call was rejected and four groups were stored.
C3_Witness ==
    /\ last.op = "calculate_lca"
    /\ last.exc = MissingData
    /\ was_set = GroupNames \ {"distribution_data"}

\* the cases in which calculate_lca fails: a group is missing or a divisor
\* is zero
FailureCase ==
    \/ \E i \in 1..5 : Groups[i] = EmptyDict
    \/ IsZero(use_phase_data["energy_density"])
    \/ IsZero(carbon_capture_data["capture_efficiency"])
    \/ IsZero(electrolysis_data["co2_electrolysis_efficiency"])
    \/ IsZero(electrolysis_data["water_electrolysis_efficiency"])
    \/ Get(conversion_data, "co_h2_ratio", R(1, 2)) = R(-1, 1)

\* C4: calculate_lca fails exactly in the failure cases, a failing call
\* leaves the stored result exactly as it was, and a returning call has
\* replaced all four categories.
C4_CalculateAtomic ==
    [][(last'.op = "calculate_lca")
       => (/\ (last'.exc # NoError) <=> FailureCase
           /\ (last'.exc # NoError) => (results' = results)
           /\ (last'.exc = NoError) =>
                  (/\ \A c \in DOMAIN results' : results'[c] # EmptyDict
                   /\ results' = last'.ret
                   /\ StoredResult(Self') = "fresh"))]_vars

\* C4 witness: calculate_lca has failed on a zero divisor while an earlier
\* result was stored.
C4_Witness ==
    /\ last.op = "calculate_lca"
    /\ last.exc = ZeroDivisionError
    /\ last.before # "empty"
    /\ results["ghg_emissions"] # EmptyDict

\* C5: after a successful calculate_lca the total of each category is the
\* sum of the category's stage entries, the GHG total is the sum of the
\* five stages, and the land_use total is 0.
C5_TotalsAreStageSums ==
    (last.op = "calculate_lca" /\ last.exc = NoError)
        => (/\ results["ghg_emissions"]["total"] =
                   StageSum(results["ghg_emissions"])
            /\ results["ghg_emissions"]["total"] =
                   SumOver(results["ghg_emissions"], StageNames)
            /\ results["energy_consumption"]["total"] =
                   StageSum(results["energy_consumption"])
            /\ results["water_usage"]["total"] =
                   StageSum(results["water_usage"])
            /\ results["land_use"]["total"] = R(0, 1))

\* C5 witness: calculate_lca has returned a result with a non-zero
\* use-phase stage.
C5_Witness ==
    /\ last.op = "calculate_lca"
    /\ last.exc = NoError
    /\ ~IsZero(results["ghg_emissions"]["use_phase"])

\* C6 as claimed: after a successful calculate_lca each of the four
\* categories maps every one of the five stage names, and total.
C6_EveryCategoryHasFiveStages ==
    (last.op = "calculate_lca" /\ last.exc = NoError)
        => \A c \in DOMAIN results :
               StageNames \cup {"total"} \subseteq DOMAIN results[c]

\* C6 amended: after a successful calculate_lca the result has the four
\* categories; ghg_emissions maps the five stages, energy_consumption the
\* stages but use_phase, water_usage carbon_capture, electrolysis and
\* conversion, land_use no stage; each has a total.
C6_CategoryKeys ==
    (last.op = "calculate_lca" /\ last.exc = NoError)
        => (/\ DOMAIN results =
                   {"ghg_emissions", "energy_consumption", "water_usage",
                    "land_use"}
            /\ DOMAIN results["ghg_emissions"] = StageNames \cup {"total"}
            /\ DOMAIN results["energy_consumption"] =
                   (StageNames \ {"use_phase"}) \cup {"total"}
            /\ DOMAIN results["water_usage"] =
                   {"carbon_capture", "electrolysis", "conversion", "total"}
            /\ DOMAIN results["land_use"] = {"total"})

\* C6 witness: calculate_lca has returned the stored result.
C6_Witness ==
    /\ last.op = "calculate_lca"
    /\ last.exc = NoError
    /\ last.ret = results

\* C7: set_distribution_data with a transport_mode outside the five modes
\* raises the invalid-argument error and leaves the distribution group,
\* the other four groups and the stored result unchanged.
C7_RejectedModeChangesNothing ==
    [][(/\ last'.op = "set_distribution_data"
        /\ last'.args.transport_mode \notin TransportModes)
       => (/\ last'.exc = InvalidArgument
           /\ Groups' = Groups
           /\ results' = results)]_vars

\* C7 witness: a set_distribution_data call was rejected while a
\* distribution group and a result were stored.
C7_Witness ==
    /\ last.op = "set_distribution_data"
    /\ last.exc = InvalidArgument
    /\ distribution_data # EmptyDict
    /\ results["ghg_emissions"] # EmptyDict

\* C8: a calculate_lca call that directly follows a returning
\* calculate_lca call returns, and returns the same result.
C8_CalculateIdempotent ==
    [][(/\ last.op = "calculate_lca"
        /\ last.exc = NoError
        /\ last'.op = "calculate_lca")
       => (/\ last'.exc = NoError
           /\ last'.ret = last.ret
           /\ results' = results)]_vars

\* C8 witness: calculate_lca has returned twice in a row.
C8_Witness ==
    /\ last.op = "calculate_lca"
    /\ last.repeat

\* C9: with a result stored, calculate_emission_reduction returns
\* (baseline - total * 1000) / baseline * 100 of the stored GHG total,
\* negative when the SAF emissions exceed the baseline, changes neither
\* the parameter groups nor the stored result, and a second call with the
\* same baseline returns the same value.
C9_ReductionPure ==
    [][(/\ last'.op = "calculate_emission_reduction"
        /\ results["ghg_emissions"] # EmptyDict)
       => (/\ last'.exc = NoError
           /\ last'.ret =
                  Mul(Div(Sub(last'.args[1],
                              Mul(results["ghg_emissions"]["total"],
                                  R(1000, 1))),
                          last'.args[1]), R(100, 1))
           /\ Less(last'.args[1],
                   Mul(results["ghg_emissions"]["total"], R(1000, 1)))
                  => Less(last'.ret, R(0, 1))
           /\ Groups' = Groups
           /\ results' = results
           /\ (last.op = "calculate_emission_reduction"
               /\ last.exc = NoError /\ last.args = last'.args)
                  => last'.ret = last.ret)]_vars

\* C9 witness: calculate_emission_reduction has returned a negative
\* reduction twice in a row.
C9_Witness ==
    /\ last.op = "calculate_emission_reduction"
    /\ last.repeat
    /\ Less(last.ret, R(0, 1))

Calculable(self) == AllDataAvailable(self) /\ ~DivisionRaises(self)

\* C11: when set_distribution_data replaces the distance of a calculable
\* model with positive energy_density by a larger one (same mode, all else
\* equal), calculate_lca yields a strictly larger ghg_emissions
\* distribution and a strictly larger GHG total than before.
C11_LargerDistanceLargerEmissions ==
    [][(/\ last'.op = "set_distribution_data"
        /\ last'.exc = NoError
        /\ Calculable(Self)
        /\ Less(R(0, 1), use_phase_data["energy_density"])
        /\ distribution_data["transport_mode"] = last'.args.transport_mode
        /\ Less(distribution_data["transport_distance"],
                last'.args.transport_distance))
       => (/\ Groups'[1] = Groups[1] /\ Groups'[2] = Groups[2]
           /\ Groups'[3] = Groups[3] /\ Groups'[5] = Groups[5]
           /\ calculate_lca(Self').exc = NoError
           /\ Less(calculate_lca(Self).ret["ghg_emissions"]["distribution"],
                   calculate_lca(Self').ret["ghg_emissions"]["distribution"])
           /\ Less(calculate_lca(Self).ret["ghg_emissions"]["total"],
                   calculate_lca(Self').ret["ghg_emissions"]["total"]))]_vars

\* C11 witness: the distance of a model with a fresh result was raised, so
\* the stored result is that of the smaller distance and is below what
\* calculate_lca yields now.
C11_Witness ==
    /\ last.op = "set_distribution_data"
    /\ last.exc = NoError
    /\ last.before = "fresh"
    /\ Calculable(Self)
    /\ Less(results["ghg_emissions"]["distribution"],
            calculate_lca(Self).ret["ghg_emissions"]["distribution"])
    /\ Less(results["ghg_emissions"]["total"],
            calculate_lca(Self).ret["ghg_emissions"]["total"])

\* a transport sweep has returned its rows
TransportSweepReturned ==
    last.op = "analyze_transport_modes" /\ last.exc = NoError

\* C12: in the rows a transport sweep returns (positive base_distance and
\* energy_density, all other parameters the same in every row), the
\* pipeline row has the smallest and the truck row the largest
\* transport_emissions and total_emissions, strictly against every other
\* mode; the sweep over the default list has the five modes, truck first
\* and pipeline last.
C12_PipelineLowestTruckHighest ==
    TransportSweepReturned =>
        /\ \A i, j \in 1..Len(last.ret) :
               /\ (/\ last.ret[i].transport_mode = "pipeline"
                   /\ last.ret[j].transport_mode # "pipeline")
                      => /\ Less(last.ret[i].transport_emissions,
                                 last.ret[j].transport_emissions)
                         /\ Less(last.ret[i].total_emissions,
                                 last.ret[j].total_emissions)
               /\ (/\ last.ret[i].transport_mode = "truck"
                   /\ last.ret[j].transport_mode # "truck")
                      => /\ Less(last.ret[j].transport_emissions,
                                 last.ret[i].transport_emissions)
                         /\ Less(last.ret[j].total_emissions,
                                 last.ret[i].total_emissions)
        /\ last.args.transport_modes = NoList
               => {last.ret[i].transport_mode : i \in 1..Len(last.ret)} =
                      TransportModes

\* C12 witness: the sweep over the default list has returned five rows,
\* the pipeline row below the truck row.
C12_Witness ==
    /\ TransportSweepReturned
    /\ last.args.transport_modes = NoList
    /\ Len(last.ret) = 5
    /\ last.ret[1].transport_mode = "truck"
    /\ last.ret[5].transport_mode = "pipeline"
    /\ Less(last.ret[5].transport_emissions, last.ret[1].transport_emissions)


\* two dicts with the same keys and values
SameDict(d, e) == DOMAIN d = DOMAIN e /\ \A key \in DOMAIN d : d[key] = e[key]

\* the stored parameters are those of the documented example
DocumentedConfiguration ==
    /\ SameDict(carbon_capture_data, DocumentedModel.carbon_capture_data)
    /\ SameDict(electrolysis_data, DocumentedModel.electrolysis_data)
    /\ SameDict(conversion_data, DocumentedModel.conversion_data)
    /\ SameDict(distribution_data, DocumentedModel.distribution_data)
    /\ SameDict(use_phase_data, DocumentedModel.use_phase_data)

\* C13: for the documented example configuration (energy density 43.0,
\* no combustion emissions, capture 80 % / 3.1 / 0.08, electrolysis 65 % and
\* 75 % on wind with 28.0 and 55.0 MJ, Fischer-Tropsch 0.2 / 2.13 / 0.923,
\* truck over 500 km) calculate_lca returns and the total of the GHG
\* category lies between 0.015 and 0.030 kg CO2e per MJ.
C13_DocumentedExampleTotal ==
    (last.op = "calculate_lca" /\ DocumentedConfiguration)
        => /\ last.exc = NoError
           /\ ~Less(results["ghg_emissions"]["total"], R(15, 1000))
           /\ ~Less(R(30, 1000), results["ghg_emissions"]["total"])

C13_Witness ==
    /\ last.op = "calculate_lca"
    /\ last.exc = NoError
    /\ DocumentedConfiguration
    /\ use_phase_data["energy_density"] = R(43, 1)
    /\ distribution_data["transport_mode"] = "truck"
    /\ distribution_data["transport_distance"] = R(500, 1)
    /\ conversion_data["syngas_requirement"] = R(213, 100)
    /\ electrolysis_data["electricity_carbon_intensity"] = R(11, 1000)
    /\ Less(R(21, 1000), results["ghg_emissions"]["total"])
    /\ Less(results["ghg_emissions"]["total"], R(22, 1000))

\* the list a sweep was called with, and the column of its varied parameter
CallerList(call) ==
    IF call.op = "analyze_electricity_sources"
    THEN call.args.electricity_sources
    ELSE call.args.transport_modes

VariedParameter(call, row) ==
    IF call.op = "analyze_electricity_sources"
    THEN row.electricity_source
    ELSE row.transport_mode

\* a sweep over a caller-supplied list on a model calculate_lca accepts,
\* every element a name the setter accepts
SweepOverCallerList(self, call) ==
    /\ call.op \in SweepOps
    /\ Calculable(self)
    /\ CallerList(call) # NoList
    /\ call.op = "analyze_transport_modes"
           => \A i \in 1..Len(CallerList(call)) :
                  CallerList(call)[i] \in TransportModes

\* the rows follow the list, element by element
RowsFollowList(call) ==
    /\ call.exc = NoError
    /\ Len(call.ret) = Len(CallerList(call))
    /\ \A i \in 1..Len(CallerList(call)) :
           VariedParameter(call, call.ret[i]) = CallerList(call)[i]

\* C14: for any caller-supplied list, an empty list and a list with
\* repeated entries included, each sweep returns exactly one row per list
\* element, the i-th row's electricity_source or transport_mode being the
\* i-th element of the list, in the order of the list and not sorted.
C14_OneRowPerListElement ==
    [][SweepOverCallerList(Self, last') => RowsFollowList(last')]_vars

\* C15: set_electrolysis_data never fails because of electricity_source.
\* The stored electricity_carbon_intensity is the caller's intensity when
\* one is given, whatever the source; otherwise the table value of a
\* recognized source; otherwise the default 0.020, an unrecognized
\* electricity_source being stored as given.
C15_IntensityResolution ==
    last.op = "set_electrolysis_data" =>
        /\ last.exc = NoError
        /\ electrolysis_data["electricity_source"] = last.args[3]
        /\ electrolysis_data["electricity_carbon_intensity"] =
               IF last.args[7] # None
               THEN last.args[7]
               ELSE IF last.args[3] \in DOMAIN electricity_carbon_intensities
                    THEN electricity_carbon_intensities[last.args[3]]
                    ELSE R(20, 1000)

\* C15 witness: an unrecognized source without an intensity has been set
\* and is stored with the default; "wind" is a source of the table.
C15_Witness ==
    /\ last.op = "set_electrolysis_data"
    /\ last.exc = NoError
    /\ last.args[3] = "tidal"
    /\ last.args[7] = None
    /\ "tidal" \notin DOMAIN electricity_carbon_intensities
    /\ electricity_carbon_intensities["wind"] = R(11, 1000)
    /\ electrolysis_data["electricity_source"] = "tidal"
    /\ electrolysis_data["electricity_carbon_intensity"] = R(20, 1000)

\* the setter call of a setup step, made on self
SetupCall(self, call) ==
    CASE call.op = "set_carbon_capture_data" ->
           set_carbon_capture_data(self, call.args[1], call.args[2],
                                   call.args[3], call.args[4], call.args[5])
      [] call.op = "set_electrolysis_data" ->
           set_electrolysis_data(self, call.args[1], call.args[2],
                                 call.args[3], call.args[4], call.args[5],
                                 call.args[6], call.args[7])
      [] call.op = "set_conversion_data" ->
           set_conversion_data(self, call.args[1], call.args[2],
                               call.args[3], call.args[4], call.args[5],
                               call.args[6], call.args[7])
      [] call.op = "set_distribution_data" ->
           set_distribution_data(self, call.args.transport_distance,
                                 call.args.transport_mode,
                                 call.args.fuel_density)
      [] call.op = "set_use_phase_data" ->
           set_use_phase_data(self, call.args[1], call.args[2])

\* self with the two optional conversion parameters written out where the
\* store does not hold them
WithDefaults(self) ==
    [self EXCEPT !.conversion_data =
        [key \in DOMAIN self.conversion_data \cup
                    {"syngas_requirement", "co_h2_ratio"} |->
            IF key \in DOMAIN self.conversion_data
            THEN self.conversion_data[key]
            ELSE IF key = "syngas_requirement" THEN R(25, 10) ELSE R(5, 10)]]

\* C16: each setter overwrites its group wholesale: what it stores is what
\* the same call stores in a new model, whatever the group held.  After
\* set_conversion_data is called without syngas_requirement or without
\* co_h2_ratio the store holds no such key, also when an earlier call gave
\* one, and the next calculate_lca computes with the defaults 2.5 and 0.5.
C16_SetterOverwritesGroup ==
    [][/\ (last'.op \in SetterOps /\ last'.exc = NoError)
          => SameDict(Self'[GroupOfSetter[last'.op]],
                      SetupCall(NewModel, last').self[GroupOfSetter[last'.op]])
       /\ (last'.op = "set_conversion_data" /\ last'.exc = NoError)
          => /\ "syngas_requirement" \in DOMAIN conversion_data'
                    <=> last'.args[6] # None
             /\ "co_h2_ratio" \in DOMAIN conversion_data'
                    <=> last'.args[7] # None
       /\ (last'.op = "calculate_lca" /\ last'.exc = NoError)
          => results' = calculate_lca(WithDefaults(Self)).ret]_vars

\* C16 witness: set_conversion_data without the two optional arguments has
\* replaced a group that held both; calculate_lca on the store now gives
\* what it gives with 2.5 and 0.5 written out.
C16_Witness ==
    /\ last.op = "set_conversion_data"
    /\ last.exc = NoError
    /\ last.args[6] = None
    /\ last.args[7] = None
    /\ {"syngas_requirement", "co_h2_ratio"} \subseteq last.replaced
    /\ DOMAIN conversion_data \cap {"syngas_requirement", "co_h2_ratio"} = {}
    /\ Calculable(Self)
    /\ WithDefaults(Self).conversion_data["syngas_requirement"] = R(5, 2)
    /\ WithDefaults(Self).conversion_data["co_h2_ratio"] = R(1, 2)
    /\ calculate_lca(Self).ret = calculate_lca(WithDefaults(Self)).ret

\* print_results has printed its benchmark section
BenchmarksPrinted ==
    /\ last.op = "print_results"
    /\ last.exc = NoError
    /\ last.ret.available
    /\ last.args.show_benchmarks

\* the policy thresholds a reduction reaches
StandardsReached(reduction) ==
    {standard \in {"CORSIA", "CA LCFS", "EU RED II"} :
        AtLeast(reduction,
                CASE standard = "CORSIA" -> R(10, 1)
                  [] standard = "CA LCFS" -> R(20, 1)
                  [] standard = "EU RED II" -> R(65, 1))}

\* C17 as stated: every compliance report, the benchmark section of
\* print_results and the compliance column of check_compliance alike, gives
\* all three results: CORSIA passes iff reduction >= 10, CA LCFS iff
\* reduction >= 20, EU RED II iff reduction >= 65, so 65 or more is reported
\* as passing all three and [20, 65) as passing CORSIA and CA LCFS.
C17_AllThreeAlwaysReported ==
    /\ BenchmarksPrinted =>
           /\ Len(last.ret.benchmarks) = 1
           /\ {standard \in {"CORSIA", "CA LCFS", "EU RED II"} :
                  CASE standard = "CORSIA" ->
                         last.ret.benchmarks[1].corsia_status
                    [] standard = "CA LCFS" ->
                         last.ret.benchmarks[1].lcfs_status
                    [] standard = "EU RED II" ->
                         last.ret.benchmarks[1].red_status} =
                  StandardsReached(last.ret.benchmarks[1].reduction)
    /\ last.op = "check_compliance" =>
           \A i \in 1..Len(last.ret) :
               {last.ret[i]} \ {"non-compliant"} =
                   StandardsReached(last.args[i])

\* C17 amended: the benchmark section of print_results reports three
\* independent inclusive comparisons of the reduction against 89 g CO2e/MJ
\* (CORSIA >= 10, CA LCFS >= 20, EU RED II >= 65), all three whenever the
\* section is printed; check_compliance reports one label per row, the
\* highest of the same inclusive thresholds the row's reduction reaches.
C17_ComplianceReports ==
    /\ BenchmarksPrinted =>
           /\ Len(last.ret.benchmarks) = 1
           /\ last.ret.benchmarks[1].reduction =
                  Reduction(results["ghg_emissions"]["total"], R(89, 1))
           /\ last.ret.benchmarks[1].corsia_status
                  <=> AtLeast(last.ret.benchmarks[1].reduction, R(10, 1))
           /\ last.ret.benchmarks[1].lcfs_status
                  <=> AtLeast(last.ret.benchmarks[1].reduction, R(20, 1))
           /\ last.ret.benchmarks[1].red_status
                  <=> AtLeast(last.ret.benchmarks[1].reduction, R(65, 1))
    /\ last.op = "check_compliance" =>
           /\ Len(last.ret) = Len(last.args)
           /\ \A i \in 1..Len(last.ret) :
                  last.ret[i] =
                      IF "EU RED II" \in StandardsReached(last.args[i])
                      THEN "EU RED II"
                      ELSE IF "CA LCFS" \in StandardsReached(last.args[i])
                           THEN "CA LCFS"
                      ELSE IF "CORSIA" \in StandardsReached(last.args[i])
                           THEN "CORSIA"
                      ELSE "non-compliant"

\* C17 witness: the benchmark section is printed for a reduction of exactly
\* 20: CORSIA and CA LCFS pass, EU RED II fails.
C17_Witness ==
    /\ BenchmarksPrinted
    /\ last.ret.benchmarks[1].reduction = R(20, 1)
    /\ last.ret.benchmarks[1].corsia_status
    /\ last.ret.benchmarks[1].lcfs_status
    /\ ~last.ret.benchmarks[1].red_status

\* no caller is inside a call, and no call has raised
Quiescent ==
    \A p \in DOMAIN callers.of :
        /\ callers.of[p].pc \in {"start", "done"}
        /\ callers.of[p].exc = NoError

\* the parameter store is the configuration the callers found
StoreAsBefore ==
    /\ SameDict(carbon_capture_data, callers.before.carbon_capture_data)
    /\ SameDict(electrolysis_data, callers.before.electrolysis_data)
    /\ SameDict(conversion_data, callers.before.conversion_data)
    /\ SameDict(distribution_data, callers.before.distribution_data)
    /\ SameDict(use_phase_data, callers.before.use_phase_data)

\* the results of the scenario configurations of the transport sweeps
ScenarioResults ==
    {calculate_lca(scenario_distribution(callers.before, c.todo[1],
                       c.base_distance,
                       callers.before.distribution_data["fuel_density"]
                   ).self).ret :
        c \in {d \in SweepCalls : d.op = "analyze_transport_modes"}}

\* C18: the class has no lock, and calls that overlap on one instance are
\* unsafe: two interleaved sweeps can leave the parameter store different
\* from the configuration before they began, one having captured the
\* other's scenario as its original, and a calculate_lca overlapping a sweep
\* can return the result of a scenario configuration (the witness).  When
\* no call overlaps another, neither happens: between calls the store and
\* the stored result are those the callers found, and calculate_lca returns
\* the result of that configuration.
C18_SerializedCallsAreSafe ==
    (callers.of # <<>> /\ ~callers.overlapped) =>
        /\ Quiescent => StoreAsBefore /\ results = callers.before.results
        /\ \A p \in DOMAIN callers.of :
               (callers.of[p].op = "calculate_lca"
                    /\ callers.of[p].pc = "done")
                   => /\ callers.of[p].exc = NoError
                      /\ callers.of[p].ret = callers.before.results

\* C18 witness: calls have overlapped and all three have returned; a
\* transport sweep captured a mode other than the configured one as its
\* original, the store holds another transport_mode than before, and
\* calculate_lca returned the result of a scenario configuration.
C18_Witness ==
    /\ callers.of # <<>>
    /\ callers.overlapped
    /\ \A p \in DOMAIN callers.of :
           callers.of[p].pc = "done" /\ callers.of[p].exc = NoError
    /\ \E p \in DOMAIN callers.of :
           /\ callers.of[p].op = "analyze_transport_modes"
           /\ callers.of[p].original[2] #
                  callers.before.distribution_data["transport_mode"]
    /\ distribution_data["transport_mode"] #
           callers.before.distribution_data["transport_mode"]
    /\ ~StoreAsBefore
    /\ \E p \in DOMAIN callers.of :
           /\ callers.of[p].op = "calculate_lca"
           /\ callers.of[p].ret # callers.before.results
           /\ callers.of[p].ret \in ScenarioResults

\* C19: apart from the transport_mode check no setter validates or clamps:
\* set_carbon_capture_data, set_electrolysis_data, set_conversion_data and
\* set_use_phase_data, and set_distribution_data with a recognized mode,
\* always succeed and store the given values unchanged, a zero or negative
\* capture_efficiency, electrolysis efficiency or energy_density and a
\* negative transport_distance included; a zero divisor is reported only
\* when calculate_lca runs, as a ZeroDivisionError and not as one of the
\* ValueErrors of the class.
C19_SettersStoreGivenValues ==
    /\ last.op = "set_carbon_capture_data" =>
           /\ last.exc = NoError
           /\ carbon_capture_data["capture_efficiency"] = last.args[1]
           /\ carbon_capture_data["energy_requirement"] = last.args[2]
           /\ carbon_capture_data["ghg_emissions"] = last.args[3]
           /\ carbon_capture_data["water_usage"] = last.args[4]
           /\ carbon_capture_data["co2_capture_rate"] = last.args[5]
    /\ last.op = "set_electrolysis_data" =>
           /\ last.exc = NoError
           /\ electrolysis_data["co2_electrolysis_efficiency"] = last.args[1]
           /\ electrolysis_data["water_electrolysis_efficiency"] =
                  last.args[2]
           /\ electrolysis_data["electricity_source"] = last.args[3]
           /\ electrolysis_data["energy_input_co"] = last.args[4]
           /\ electrolysis_data["energy_input_h2"] = last.args[5]
           /\ electrolysis_data["water_usage"] = last.args[6]
    /\ last.op = "set_conversion_data" =>
           /\ last.exc = NoError
           /\ conversion_data["technology"] = last.args[1]
           /\ conversion_data["efficiency"] = last.args[2]
           /\ conversion_data["ghg_emissions"] = last.args[3]
           /\ conversion_data["energy_input"] = last.args[4]
           /\ conversion_data["water_usage"] = last.args[5]
    /\ last.op = "set_use_phase_data" =>
           /\ last.exc = NoError
           /\ use_phase_data["combustion_emissions"] = last.args[1]
           /\ use_phase_data["energy_density"] = last.args[2]
    /\ (last.op = "set_distribution_data"
           /\ last.args.transport_mode \in TransportModes) =>
           /\ last.exc = NoError
           /\ distribution_data["transport_distance"] =
                  last.args.transport_distance
           /\ distribution_data["transport_mode"] = last.args.transport_mode
           /\ distribution_data["fuel_density"] = last.args.fuel_density
    /\ (/\ last.op = "calculate_lca"
        /\ was_set = GroupNames
        /\ \/ IsZero(carbon_capture_data["capture_efficiency"])
           \/ IsZero(electrolysis_data["co2_electrolysis_efficiency"])
           \/ IsZero(electrolysis_data["water_electrolysis_efficiency"])
           \/ IsZero(use_phase_data["energy_density"])) =>
           /\ last.exc = ZeroDivisionError
           /\ last.exc \notin {MissingData, InvalidArgument}

\* C19 witness: the setters have stored a zero capture_efficiency, a
\* negative energy_density and a negative transport_distance, and
\* calculate_lca has then raised ZeroDivisionError.
C19_Witness ==
    /\ last.op = "calculate_lca"
    /\ last.exc = ZeroDivisionError
    /\ was_set = GroupNames
    /\ carbon_capture_data["capture_efficiency"] = R(0, 1)
    /\ use_phase_data["energy_density"] = R(-43, 1)
    /\ distribution_data["transport_distance"] = R(-500, 1)
    /\ electrolysis_data["co2_electrolysis_efficiency"] = R(-65, 1)

\* C20: in every reachable state in which the distribution group is set,
\* after setter calls, rejected setter calls and sweeps, the stored
\* emission_factor and energy_factor are the table values of the stored
\* transport_mode, ghg_emissions = emission_factor * 0.001 *
\* transport_distance and energy_input = energy_factor * 0.001 *
\* transport_distance.
C20_DistributionGroupConsistent ==
    distribution_data # EmptyDict =>
        /\ distribution_data["transport_mode"] \in TransportModes
        /\ distribution_data["emission_factor"] =
               emission_factors[distribution_data["transport_mode"]]
        /\ distribution_data["energy_factor"] =
               energy_factors[distribution_data["transport_mode"]]
        /\ distribution_data["ghg_emissions"] =
               Mul(Mul(distribution_data["emission_factor"], R(1, 1000)),
                   distribution_data["transport_distance"])
        /\ distribution_data["energy_input"] =
               Mul(Mul(distribution_data["energy_factor"], R(1, 1000)),
                   distribution_data["transport_distance"])

\* C20 witness: a transport sweep over caller modes at a base_distance of
\* 100 km has returned and has restored rail at 500 km: factors 0.022 and
\* 0.6, derived values 0.011 and 0.3.
C20_Witness ==
    /\ TransportSweepReturned
    /\ last.args.transport_modes = <<"pipeline", "pipeline">>
    /\ last.args.base_distance = R(100, 1)
    /\ distribution_data # EmptyDict
    /\ distribution_data["transport_mode"] = "rail"
    /\ distribution_data["transport_distance"] = R(500, 1)
    /\ distribution_data["emission_factor"] = R(22, 1000)
    /\ distribution_data["energy_factor"] = R(6, 10)
    /\ distribution_data["ghg_emissions"] = R(11, 1000)
    /\ distribution_data["energy_input"] = R(3, 10)

\* the electrolysis stage as the formulas state it, from the stored
\* parameters: <<co, h2, total_syngas, energy_electrolysis,
\* ghg_electrolysis>>
StatedElectrolysis ==
    LET r == Get(conversion_data, "co_h2_ratio", R(1, 2))
        total_syngas ==
            Div(Get(conversion_data, "syngas_requirement", R(25, 10)),
                use_phase_data["energy_density"])
        co == Mul(total_syngas, Div(r, Add(R(1, 1), r)))
        h2 == Mul(total_syngas, Div(R(1, 1), Add(R(1, 1), r)))
        actual_co ==
            Div(co, Div(electrolysis_data["co2_electrolysis_efficiency"],
                        R(100, 1)))
        actual_h2 ==
            Div(h2, Div(electrolysis_data["water_electrolysis_efficiency"],
                        R(100, 1)))
        energy == Add(Mul(actual_co, electrolysis_data["energy_input_co"]),
                      Mul(actual_h2, electrolysis_data["energy_input_h2"]))
        ghg == Div(Mul(energy,
                       electrolysis_data["electricity_carbon_intensity"]),
                   R(36, 10))
    IN  <<co, h2, total_syngas, energy, ghg>>

\* C21: after a calculate_lca that returned, the electrolysis stage follows
\* the stated formulas with 1 / energy_density applied exactly once:
\* total_syngas = syngas_requirement / energy_density, split into
\* co = total_syngas * r / (1 + r) and h2 = total_syngas / (1 + r) with
\* co + h2 = total_syngas, each divided by its efficiency / 100; the stage's
\* energy is actual_co * energy_input_co + actual_h2 * energy_input_h2 and
\* its GHG value is that energy * electricity_carbon_intensity / 3.6.
C21_ElectrolysisFormulas ==
    (last.op = "calculate_lca" /\ last.exc = NoError) =>
        /\ Add(StatedElectrolysis[1], StatedElectrolysis[2]) =
               StatedElectrolysis[3]
        /\ results["energy_consumption"]["electrolysis"] =
               StatedElectrolysis[4]
        /\ results["ghg_emissions"]["electrolysis"] = StatedElectrolysis[5]

\* C21 witness: calculate_lca has returned on the documented configuration
\* (energy_density 43, syngas_requirement 2.13, ratio 0.923, wind).
C21_Witness ==
    /\ last.op = "calculate_lca"
    /\ last.exc = NoError
    /\ DocumentedConfiguration
    /\ StatedElectrolysis[3] = Div(R(213, 100), R(43, 1))
    /\ results["ghg_emissions"]["electrolysis"] = StatedElectrolysis[5]
    /\ Less(R(0, 1), results["ghg_emissions"]["electrolysis"])

\* the column of the stage a sweep varies, and the name of that stage
VariedEmissions(call, row) ==
    IF call.op = "analyze_electricity_sources"
    THEN row.electrolysis_emissions
    ELSE row.transport_emissions

VariedStage(call) ==
    IF call.op = "analyze_electricity_sources" THEN "electrolysis"
    ELSE "distribution"

\* the GHG stages of inventory other than stage, summed, in g
OtherStages(inventory, stage) ==
    Mul(Sub(inventory["ghg_emissions"]["total"],
            inventory["ghg_emissions"][stage]), R(1000, 1))

\* C22: each sweep varies one stage only: in the rows a sweep returns,
\* total_emissions minus electrolysis_emissions (electricity sweep) or minus
\* transport_emissions (transport sweep) is the same in every row, and it
\* is the sum of the other four GHG stages of the configuration before the
\* sweep, times 1000.
C22_SweepVariesOneStage ==
    [][(last'.op \in SweepOps /\ last'.exc = NoError)
       => /\ \A i, j \in 1..Len(last'.ret) :
                Sub(last'.ret[i].total_emissions,
                    VariedEmissions(last', last'.ret[i])) =
                Sub(last'.ret[j].total_emissions,
                    VariedEmissions(last', last'.ret[j]))
          /\ Calculable(Self) =>
                \A i \in 1..Len(last'.ret) :
                    Sub(last'.ret[i].total_emissions,
                        VariedEmissions(last', last'.ret[i])) =
                    OtherStages(calculate_lca(Self).ret,
                                VariedStage(last'))]_vars

\* C22 witness: a transport sweep over two different modes has returned
\* two rows with different totals and the same remainder.
C22_Witness ==
    /\ TransportSweepReturned
    /\ Len(last.ret) = 2
    /\ last.ret[1].transport_mode # last.ret[2].transport_mode
    /\ last.ret[1].total_emissions # last.ret[2].total_emissions
    /\ Sub(last.ret[1].total_emissions, last.ret[1].transport_emissions) =
           Sub(last.ret[2].total_emissions, last.ret[2].transport_emissions)
    /\ Sub(last.ret[1].total_emissions, last.ret[1].transport_emissions) =
           OtherStages(results, "distribution")

\* an electricity sweep has returned its rows
ElectricitySweepReturned ==
    last.op = "analyze_electricity_sources" /\ last.exc = NoError

\* C23: in analyze_electricity_sources every row's carbon_intensity is the
\* table value of the row's source, the default 0.020 for a source the
\* table does not hold, also when the electrolysis group had been set with
\* an intensity of its own; that intensity is applied only to the
\* configuration restored after the sweep.
C23_RowsUseLookup ==
    ElectricitySweepReturned =>
        \A i \in 1..Len(last.ret) :
            last.ret[i].carbon_intensity =
                IF last.ret[i].electricity_source
                       \in DOMAIN electricity_carbon_intensities
                THEN electricity_carbon_intensities[
                         last.ret[i].electricity_source]
                ELSE R(20, 1000)

\* C23 witness: the model's source is "wind" with its own intensity 0.050;
\* the sweep's row for "wind" has 0.011 and a total other than the model's
\* own, and the row for the unrecognized "tidal" has 0.020.
C23_Witness ==
    /\ ElectricitySweepReturned
    /\ last.args.electricity_sources = <<"wind", "tidal">>
    /\ electrolysis_data["electricity_source"] = "wind"
    /\ electrolysis_data["electricity_carbon_intensity"] = R(50, 1000)
    /\ last.ret[1].carbon_intensity = R(11, 1000)
    /\ last.ret[2].carbon_intensity = R(20, 1000)
    /\ last.ret[1].total_emissions #
           Mul(results["ghg_emissions"]["total"], R(1000, 1))

\* C24: in analyze_transport_modes every row is computed at base_distance,
\* not at the transport_distance the model is configured with: the row's
\* transport_emissions is emission_factor(mode) * 0.001 * base_distance /
\* energy_density * 1000, and the row's emission_factor and energy_factor
\* are the table values of the row's mode.
C24_RowsAtBaseDistance ==
    TransportSweepReturned =>
        \A i \in 1..Len(last.ret) :
            /\ last.ret[i].emission_factor =
                   emission_factors[last.ret[i].transport_mode]
            /\ last.ret[i].energy_factor =
                   energy_factors[last.ret[i].transport_mode]
            /\ last.ret[i].transport_emissions =
                   Mul(Div(Mul(Mul(emission_factors[
                                       last.ret[i].transport_mode],
                                   R(1, 1000)),
                               last.args.base_distance),
                           use_phase_data["energy_density"]),
                       R(1000, 1))

\* C24 witness: a model configured with 500 km has been swept at a
\* base_distance of 100 km; the rail row has the factors 0.022 and 0.6 and
\* the emissions of 100 km, a fifth of those of 500 km.
C24_Witness ==
    /\ TransportSweepReturned
    /\ last.args.base_distance = R(100, 1)
    /\ distribution_data["transport_distance"] = R(500, 1)
    /\ last.ret[1].transport_mode = "rail"
    /\ last.ret[1].emission_factor = R(22, 1000)
    /\ last.ret[1].energy_factor = R(6, 10)
    /\ last.ret[1].transport_emissions =
           Div(R(22, 10), use_phase_data["energy_density"])
    /\ last.ret[1].transport_emissions #
           Div(R(11, 1), use_phase_data["energy_density"])

\* self set up again with another technology, conversion efficiency and
\* fuel_density, everything else as stored
InformationalVariant(self, technology, efficiency, fuel_density) ==
    set_distribution_data(
        set_conversion_data(self, technology, efficiency,
            self.conversion_data["ghg_emissions"],
            self.conversion_data["energy_input"],
            self.conversion_data["water_usage"],
            Get(self.conversion_data, "syngas_requirement", None),
            Get(self.conversion_data, "co_h2_ratio", None)).self,
        self.distribution_data["transport_distance"],
        self.distribution_data["transport_mode"], fuel_density).self

InformationalVariants(self) ==
    {InformationalVariant(self, technology, efficiency, fuel_density) :
        technology \in {self.conversion_data["technology"],
                        "methanol-to-jet"},
        efficiency \in {self.conversion_data["efficiency"], R(1, 1),
                        R(0, 1)},
        fuel_density \in {self.distribution_data["fuel_density"], R(1, 1),
                          R(0, 1)}}

\* C25: the conversion group's technology and efficiency and the
\* distribution group's fuel_density do not influence the inventory: a
\* configuration that differs from the stored one only in them gives the
\* same result from calculate_lca and the same value from
\* calculate_emission_reduction (the value is a function of the result it
\* reads; it is computed here for the variants of the documented
\* configuration).
C25_InformationalParameters ==
    (last.op = "calculate_lca" /\ last.exc = NoError) =>
        \A variant \in InformationalVariants(Self) :
            /\ calculate_lca(variant).exc = NoError
            /\ calculate_lca(variant).ret = results
            /\ DocumentedConfiguration =>
                   calculate_emission_reduction(variant, R(89, 1)).ret =
                       calculate_emission_reduction(Self, R(89, 1)).ret

\* C25 witness: calculate_lca has returned on the documented
\* configuration, of which there is a variant with another technology,
\* efficiency and fuel_density.
C25_Witness ==
    /\ last.op = "calculate_lca"
    /\ last.exc = NoError
    /\ DocumentedConfiguration
    /\ \E variant \in InformationalVariants(Self) :
           /\ variant.conversion_data["technology"] = "methanol-to-jet"
           /\ variant.conversion_data["efficiency"] = R(0, 1)
           /\ variant.distribution_data["fuel_density"] = R(1, 1)
           /\ conversion_data["efficiency"] = R(65, 100)
           /\ distribution_data["fuel_density"] = R(8, 10)
           /\ calculate_lca(variant).ret = results

\* an electricity sweep with its default list returns one row per source
\* of that list
DefaultListSwept ==
    (ElectricitySweepReturned /\ last.args.electricity_sources = NoList)
        => Len(last.ret) = Len(default_electricity_sources)

\* C26 as stated: the lookup table of set_electrolysis_data holds exactly
\* 15 named sources and the default list of analyze_electricity_sources
\* exactly 11.
C26_FifteenSources ==
    /\ Cardinality(DOMAIN electricity_carbon_intensities) = 15
    /\ Len(default_electricity_sources) = 11
    /\ DefaultListSwept

\* C26 amended: the lookup table of set_electrolysis_data holds exactly 14
\* named sources and the default list of analyze_electricity_sources
\* exactly 11 sources.
C26_FourteenSources ==
    /\ Cardinality(DOMAIN electricity_carbon_intensities) = 14
    /\ Len(default_electricity_sources) = 11
    /\ Cardinality({default_electricity_sources[i] :
                       i \in 1..Len(default_electricity_sources)}) = 11
    /\ DefaultListSwept

\* C26 witness: a sweep with the default list has returned its 11 rows;
\* the table has the three sources the list leaves out.
C26_Witness ==
    /\ ElectricitySweepReturned
    /\ last.args.electricity_sources = NoList
    /\ Len(last.ret) = 11
    /\ DOMAIN electricity_carbon_intensities \
           {last.ret[i].electricity_source : i \in 1..Len(last.ret)} =
               {"nuclear", "biomass", "low_carbon_mix"}

\* C27: every setter changes only its own parameter group: the other four
\* groups, the fixed configuration (pathway FT, functional unit MJ, CO2
\* source DAC) and the stored result are left as they were, so a setter
\* does not invalidate the stored result, and calculate_emission_reduction
\* called after it, with no calculate_lca in between, returns the value of
\* the old parameters.
C27_SetterChangesOwnGroupOnly ==
    [][last'.op \in SetterOps
       => /\ \A g \in GroupNames \ {GroupOfSetter[last'.op]} :
                SameDict(Self'[g], Self[g])
          /\ pathway' = pathway /\ pathway' = "FT"
          /\ functional_unit' = functional_unit /\ functional_unit' = "MJ"
          /\ co2_source' = co2_source /\ co2_source' = "DAC"
          /\ results' = results
          /\ results["ghg_emissions"] # EmptyDict =>
                /\ calculate_emission_reduction(Self', R(89, 1)).exc =
                       NoError
                /\ calculate_emission_reduction(Self', R(89, 1)).ret =
                       calculate_emission_reduction(Self, R(89, 1)).ret
                /\ calculate_emission_reduction(Self', R(89, 1)).ret =
                       Reduction(results["ghg_emissions"]["total"],
                                 R(89, 1))]_vars

\* C27 witness: a setter has stored other parameters than those of the
\* stored result, which was fresh before the call and is stale now;
\* calculate_emission_reduction still returns the value of that result, not
\* the value calculate_lca would give on the new parameters.
C27_Witness ==
    /\ last.op \in SetterOps
    /\ last.exc = NoError
    /\ last.before = "fresh"
    /\ StoredResult(Self) = "stale"
    /\ Calculable(Self)
    /\ calculate_emission_reduction(Self, R(89, 1)).ret =
           Reduction(results["ghg_emissions"]["total"], R(89, 1))
    /\ calculate_emission_reduction(Self, R(89, 1)).ret #
           Reduction(calculate_lca(Self).ret["ghg_emissions"]["total"],
                     R(89, 1))

\* C28: after any sweep that completes without error, the stored result
\* equals the result of calculate_lca on the current (restored) parameter
\* groups, whether the stored result before the sweep was empty, stale or
\* fresh; calculate_emission_reduction then returns the reduction of that
\* recomputed result.
C28_SweepLeavesFreshResult ==
    [][last'.op \in SweepOps /\ last'.exc = NoError
       => /\ calculate_lca(Self').exc = NoError
          /\ results' = calculate_lca(Self').ret
          /\ StoredResult(Self') = "fresh"
          /\ calculate_emission_reduction(Self', R(89, 1)).ret =
                Reduction(
                    calculate_lca(Self').ret["ghg_emissions"]["total"],
                    R(89, 1))]_vars

\* C28 witness: a sweep has returned on a model whose stored result was
\* stale (that of the example configuration, the groups set otherwise
\* since); the result stored now is the one of the present groups, and
\* calculate_emission_reduction returns another value than it did on the
\* stale result.
C28_Witness ==
    /\ last.op \in SweepOps
    /\ last.exc = NoError
    /\ last.before = "stale"
    /\ StoredResult(Self) = "fresh"
    /\ results # calculate_lca(ExampleModel).ret
    /\ calculate_emission_reduction(Self, R(89, 1)).ret #
           Reduction(
               calculate_lca(ExampleModel).ret["ghg_emissions"]["total"],
               R(89, 1))

\* the list of a transport sweep call holds recognized modes only, and at
\* least one (no list at all: the default list)
RecognizedModes(transport_modes) ==
    \/ transport_modes = NoList
    \/ /\ transport_modes # <<>>
       /\ \A i \in 1..Len(transport_modes) :
              transport_modes[i] \in TransportModes

DefaultListCall(call) ==
    /\ call.op \in SweepOps
    /\ CallerList(call) = NoList

\* C30: every source of the default electricity sweep list is a key of the
\* electricity lookup table and every mode of the default transport sweep
\* list is a key of both transport factor tables, so on a fully configured
\* model a sweep over its default list never raises the invalid-argument
\* error and never resolves an intensity by the fallback for unrecognized
\* sources: every row it returns carries a table key and that key's table
\* value.
C30_DefaultListsRecognized ==
    [][(DefaultListCall(last') /\ AllDataAvailable(Self))
       => /\ \A i \in 1..Len(default_electricity_sources) :
                default_electricity_sources[i]
                    \in DOMAIN electricity_carbon_intensities
          /\ \A i \in 1..Len(default_transport_modes) :
                default_transport_modes[i]
                    \in DOMAIN emission_factors \cap DOMAIN energy_factors
          /\ last'.exc # InvalidArgument
          /\ last'.exc \in {NoError, ZeroDivisionError}
          /\ (last'.exc = NoError
                 /\ last'.op = "analyze_electricity_sources") =>
                /\ Len(last'.ret) = Len(default_electricity_sources)
                /\ \A i \in 1..Len(last'.ret) :
                      /\ last'.ret[i].electricity_source =
                            default_electricity_sources[i]
                      /\ last'.ret[i].electricity_source
                            \in DOMAIN electricity_carbon_intensities
                      /\ last'.ret[i].carbon_intensity =
                            electricity_carbon_intensities[
                                last'.ret[i].electricity_source]
          /\ (last'.exc = NoError
                 /\ last'.op = "analyze_transport_modes") =>
                /\ Len(last'.ret) = Len(default_transport_modes)
                /\ \A i \in 1..Len(last'.ret) :
                      /\ last'.ret[i].transport_mode =
                            default_transport_modes[i]
                      /\ last'.ret[i].emission_factor =
                            emission_factors[default_transport_modes[i]]
                      /\ last'.ret[i].energy_factor =
                            energy_factors[default_transport_modes[i]]
         ]_vars

\* C30 witness: on a fully configured model a transport sweep over the
\* default list has returned its five rows, the last one for "pipeline".
C30_Witness ==
    /\ DefaultListCall(last)
    /\ last.op = "analyze_transport_modes"
    /\ last.exc = NoError
    /\ AllDataAvailable(Self)
    /\ "distribution_data" \in was_set
    /\ Len(last.ret) = 5
    /\ last.ret[5].transport_mode = "pipeline"
    /\ last.ret[5].emission_factor = R(2, 1000)

====
